---- MODULE Spec2Model ----
(***************************************************************************)
(* Identity and tenancy provisioning core of hyperswitch                   *)
(* (crates/router/src/types/domain/user.rs).                               *)
(*                                                                         *)
(* Every await of the source is one atomic step of the calling request;    *)
(* requests interleave freely between awaits.  The account store, the      *)
(* merchant-management capability and the password-hashing capability are  *)
(* external collaborators: each call to one of them takes its outcome from *)
(* the set of outcomes the collaborator can produce.                       *)
(***************************************************************************)
EXTENDS Integers, Sequences, FiniteSets, TLC

(* ---------------------------------------------------------------- bounds *)
NEmails == 2
NMerchants == 2
NPasswords == 2
NUsers == 2
NOrgs == 1
NProfiles == 1
NKeys == 2
MaxCompares == 2
MaxCalls == 2

\* consts::user_role::INTERNAL_USER_MERCHANT_ID, the reserved merchant of internal users
INTERNAL_USER_MERCHANT_ID == 0

Procs == {1, 2}
Emails == 1..NEmails
MerchantIds == 1..NMerchants
Passwords == 1..NPasswords

(* ------------------------------------------------------- Option / Result *)
None == <<>>
Some(x) == <<x>>
Ok(v) == [ok |-> TRUE, val |-> <<v>>, err |-> "none"]
Err(e) == [ok |-> FALSE, val |-> <<>>, err |-> e]

(* A secret string: the plaintext p, its password hash, or a stored value  *)
(* that is no well-formed hash.                                            *)
Plain(p) == [kind |-> "plain", of |-> p]
PHash(p) == [kind |-> "argon2", of |-> p]

VARIABLES
    users,            \* user table of the global store: a set of user rows
    merchants,        \* merchant accounts: a set of [id, by] (by = 0: existed at start)
    newUser,          \* newUser[p]: the NewUser aggregate request p provisions
    pc,               \* pc[p]: the await request p is suspended at
    created_user,     \* created_user[p]: result of insert_user_in_db (None before it ran)
    result,           \* result[p]: what insert_user_and_merchant_in_db returned (None before)
    trace,            \* trace[p]: the collaborator calls request p made, in order
    deleteRes,        \* deleteRes[p]: outcome of the compensating delete ("none" | "ok" | "failed")
    faulty            \* environment: TRUE when collaborators may fail for causes other
                      \* than uniqueness / not-found (outages, hashing errors)

VARIABLES
    roleStore,        \* user_roles table: a set of UserRole rows
    role,             \* role[p]: the NewUserRole<E> value request p holds
    rpc,              \* rpc[p]: "no_level" | "scoped" | "done"
    rop,              \* rop[p]: the insertion operation p invoked ("none" before)
    rcalls,           \* rcalls[p]: the insert_user_role payloads p sent, in order
    rresult           \* rresult[p]: what the insertion operation returned (None before)

VARIABLES
    keyStore,         \* user_key_store table: a set of UserKeyStore rows
    keymanager_create,\* whether the build has feature "keymanager_create"
    kuser,            \* kuser[p]: the user request p calls get_or_create_key_store for
    kpc,              \* kpc[p]: the await request p is suspended at
    kfetch,           \* kfetch[p]: how the key-store fetch ended ("none" before)
    kkey,             \* kkey[p]: the key p generated (None before)
    key_store,        \* key_store[p]: the UserKeyStore row p built for insertion (None before)
    kcalls,           \* kcalls[p]: generation, transfer and insert calls p made, in order
    kresult           \* kresult[p]: what get_or_create_key_store returned (None before)

VARIABLES
    storedUser,       \* the UserFromStorage compare_password is called on
    cmpLog            \* the compare_password calls made: candidate, verify outcome, result

VARIABLES
    organizations,    \* organization table: a set of organization rows
    last              \* the operation that ran last, start to end: its argument, what the
                      \* stores answered, the calls it made, the rows it added, its result

VARIABLES
    BLOCKED_EMAIL,    \* the lazily loaded blocked-domain set (None until first use)
    input,            \* the validating constructor under call and its argument
    outputs           \* what the calls made so far on that argument returned, in order

provVars == <<users, merchants, newUser, pc, created_user, result, trace, deleteRes, faulty>>
roleVars == <<roleStore, role, rpc, rop, rcalls, rresult>>
keyVars == <<keyStore, keymanager_create, kuser, kpc, kfetch, kkey, key_store, kcalls, kresult>>
pwdVars == <<storedUser, cmpLog>>
opsVars == <<organizations, last>>
valVars == <<BLOCKED_EMAIL, input, outputs>>

vars == <<provVars, roleVars, keyVars, pwdVars, opsVars, valVars>>

(* ------------------------------------------------------------ value sets *)
NewUserValues(p) ==
    [user_id : {<<"uuid", p>>},
     email : Emails,
     password : {None, Some(Plain(1))},
     merchant_id : MerchantIds]

(* A user row that was in the table before any request of the model ran.   *)
PreUser(e) ==
    [user_id |-> <<"pre", e>>, email |-> e, password |-> None,
     is_verified |-> TRUE, totp_status |-> "NotSet", totp_secret |-> None,
     totp_recovery_codes |-> None, preferred_merchant_id |-> None,
     last_password_modified_at |-> None]

(* ----------------------------------------------- external collaborators *)
generate_password_hash(secret, hashOk) ==
    IF hashOk THEN Ok(PHash(secret.of)) ELSE Err("InternalServerError")

\* Whether a collaborator call may fail for a cause other than uniqueness / not-found.
FaultChoices == IF faulty THEN BOOLEAN ELSE {FALSE}

\* find_user_by_email: the outcomes the store can answer with.
find_user_by_email(table, email) ==
    (IF \E r \in table : r.email = email THEN {"found"} ELSE {"not_found"})
        \cup {"db_error" : f \in FaultChoices \ {FALSE}}

\* get_merchant_key_store_by_merchant_id: the outcomes the store can answer with.
get_merchant_key_store_by_merchant_id(accounts, id) ==
    (IF \E m \in accounts : m.id = id THEN {"found"} ELSE {"not_found"})
        \cup {"db_error" : f \in FaultChoices \ {FALSE}}

\* admin::create_merchant_account: all or nothing; a second account under an
\* existing merchant id is refused.
create_merchant_account(accounts, id, by, fault) ==
    IF fault \/ \E m \in accounts : m.id = id
    THEN [res |-> Err("merchant_create_failed"), accounts |-> accounts]
    ELSE [res |-> Ok("unit"), accounts |-> accounts \cup {[id |-> id, by |-> by]}]

\* admin::merchant_account_delete.
merchant_account_delete(accounts, id, fault) ==
    IF fault
    THEN [res |-> Err("merchant_delete_failed"), accounts |-> accounts]
    ELSE [res |-> Ok("unit"), accounts |-> {m \in accounts : m.id # id}]

\* insert_user of the store: the email is unique; a failed insert adds nothing.
db_insert_user(table, row, fault) ==
    IF fault THEN [res |-> Err("db_error"), table |-> table]
    ELSE IF \E r \in table : r.email = row.email
    THEN [res |-> Err("unique_violation"), table |-> table]
    ELSE [res |-> Ok(row), table |-> table \cup {row}]

is_db_unique_violation(e) == e = "unique_violation"

(* ------------------------------------------------- NewUser -> UserNew row *)
UserNew_try_from_mutant(value, hashOk) ==
    Ok([user_id |-> value.user_id,
        email |-> value.email,
        password |-> value.password,
        is_verified |-> FALSE,
        totp_status |-> "NotSet",
        totp_secret |-> None,
        totp_recovery_codes |-> None,
        preferred_merchant_id |-> None,
        last_password_modified_at |-> IF value.password # None THEN Some("now") ELSE None])

UserNew_try_from(value, hashOk) ==
    LET hashed_password ==
            IF value.password = None THEN Ok(None)
            ELSE LET h == generate_password_hash(value.password[1], hashOk)
                 IN  IF h.ok THEN Ok(Some(h.val[1])) ELSE h
    IN  IF ~hashed_password.ok THEN hashed_password
        ELSE Ok([user_id |-> value.user_id,
                 email |-> value.email,
                 password |-> hashed_password.val[1],
                 is_verified |-> FALSE,
                 totp_status |-> "NotSet",
                 totp_secret |-> None,
                 totp_recovery_codes |-> None,
                 preferred_merchant_id |-> None,
                 last_password_modified_at |->
                     IF value.password # None THEN Some("now") ELSE None])

(* ------------------------------------------------------ insert_user_in_db *)
insert_user_error_mutant(e) ==
    "InternalServerError"

insert_user_error(e) ==
    IF is_db_unique_violation(e) THEN "UserExists" ELSE "InternalServerError"

insert_user_in_db(value, table, hashOk, fault) ==
    LET conv == UserNew_try_from(value, hashOk)
    IN  IF ~conv.ok THEN [res |-> conv, table |-> table]
        ELSE LET ins == db_insert_user(table, conv.val[1], fault)
             IN  IF ins.res.ok THEN ins
                 ELSE [res |-> Err(insert_user_error(ins.res.err)), table |-> ins.table]

(* ------------------------------------- insert_user_and_merchant_in_db *)
\* line 633: the compensating delete runs exactly when the insertion failed.
needs_compensation_mutant(cu) ==
    ~cu.ok /\ cu.err # "UserExists"

needs_compensation_never(cu) ==
    FALSE

needs_compensation_always(cu) ==
    TRUE

needs_compensation(cu) ==
    ~cu.ok

\* line 634-636: the delete's outcome is dropped, created_user is returned.
returned_after_delete_mutant(cu, del) ==
    IF del.ok THEN cu ELSE Err("InternalServerError")

returned_after_delete(cu, del) ==
    cu

Call(name, arg) == [call |-> name, arg |-> arg]

Finish(p, r) ==
    /\ result' = [result EXCEPT ![p] = Some(r)]
    /\ pc' = [pc EXCEPT ![p] = "done"]

\* NewUser::check_if_already_exists_in_db (line 626)
CheckUser(p) ==
    /\ pc[p] = "check_user"
    /\ \E out \in find_user_by_email(users, newUser[p].email) :
        /\ trace' = [trace EXCEPT ![p] = Append(@, Call("find_user_by_email", newUser[p].email))]
        /\ IF out = "found"
           THEN Finish(p, Err("UserExists"))
           ELSE /\ pc' = [pc EXCEPT ![p] = "check_merchant"]
                /\ UNCHANGED result
    /\ UNCHANGED <<users, merchants, newUser, created_user, deleteRes, faulty, roleVars, keyVars, pwdVars, opsVars, valVars>>

\* NewUserMerchant::check_if_already_exists_in_db (line 448)
CheckMerchant(p) ==
    /\ pc[p] = "check_merchant"
    /\ \E out \in get_merchant_key_store_by_merchant_id(merchants, newUser[p].merchant_id) :
        /\ trace' = [trace EXCEPT ![p] =
                        Append(@, Call("get_merchant_key_store", newUser[p].merchant_id))]
        /\ IF out = "found"
           THEN Finish(p, Err("MerchantAccountCreationError"))
           ELSE /\ pc' = [pc EXCEPT ![p] = "create_merchant"]
                /\ UNCHANGED result
    /\ UNCHANGED <<users, merchants, newUser, created_user, deleteRes, faulty, roleVars, keyVars, pwdVars, opsVars, valVars>>

\* create_merchant_account_request of the v1 build, which always succeeds, and
\* admin::create_merchant_account (lines 450-461)
CreateMerchant(p) ==
    /\ pc[p] = "create_merchant"
    /\ \E fault \in FaultChoices :
        LET r == create_merchant_account(merchants, newUser[p].merchant_id, p, fault)
        IN  /\ merchants' = r.accounts
            /\ trace' = [trace EXCEPT ![p] =
                            Append(@, Call("create_merchant_account", newUser[p].merchant_id))]
            /\ IF r.res.ok
               THEN /\ pc' = [pc EXCEPT ![p] = "insert_user"]
                    /\ UNCHANGED result
               ELSE Finish(p, Err("InternalServerError"))
    /\ UNCHANGED <<users, newUser, created_user, deleteRes, faulty, roleVars, keyVars, pwdVars, opsVars, valVars>>

\* insert_user_in_db and the test of its result (lines 632-633, 636)
InsertUser(p) ==
    /\ pc[p] = "insert_user"
    /\ \E hashFault \in FaultChoices, fault \in FaultChoices :
        LET hashOk == ~hashFault
            r == insert_user_in_db(newUser[p], users, hashOk, fault)
            reached == newUser[p].password = None \/ hashOk
        IN  /\ users' = r.table
            /\ created_user' = [created_user EXCEPT ![p] = Some(r.res)]
            /\ trace' = [trace EXCEPT ![p] =
                            IF reached THEN Append(@, Call("insert_user", newUser[p].email))
                            ELSE @]
            /\ IF needs_compensation(r.res)
               THEN /\ pc' = [pc EXCEPT ![p] = "delete_merchant"]
                    /\ UNCHANGED result
               ELSE Finish(p, r.res)
    /\ UNCHANGED <<merchants, newUser, deleteRes, faulty, roleVars, keyVars, pwdVars, opsVars, valVars>>

\* admin::merchant_account_delete, its outcome dropped (lines 634-636)
DeleteMerchant(p) ==
    /\ pc[p] = "delete_merchant"
    /\ \E fault \in FaultChoices :
        LET r == merchant_account_delete(merchants, newUser[p].merchant_id, fault)
        IN  /\ merchants' = r.accounts
            /\ trace' = [trace EXCEPT ![p] =
                            Append(@, Call("merchant_account_delete", newUser[p].merchant_id))]
            /\ deleteRes' = [deleteRes EXCEPT ![p] = IF r.res.ok THEN "ok" ELSE "failed"]
            /\ Finish(p, returned_after_delete(created_user[p][1], r.res))
    /\ UNCHANGED <<users, newUser, created_user, faulty, roleVars, keyVars, pwdVars, opsVars, valVars>>

ProvInit ==
    /\ \E reg \in SUBSET Emails : users = {PreUser(e) : e \in reg}
    /\ \E ex \in SUBSET MerchantIds : merchants = {[id |-> m, by |-> 0] : m \in ex}
    /\ newUser \in [Procs -> UNION {NewUserValues(p) : p \in Procs}]
    /\ \A p \in Procs : newUser[p] \in NewUserValues(p)
    /\ pc = [p \in Procs |-> "check_user"]
    /\ created_user = [p \in Procs |-> None]
    /\ result = [p \in Procs |-> None]
    /\ trace = [p \in Procs |-> <<>>]
    /\ deleteRes = [p \in Procs |-> "none"]
    /\ faulty \in BOOLEAN

(* ------------------------------------------------------------------------ *)
(* Role-level builder: NewUserRole<E> and its insertion operations          *)
(* ------------------------------------------------------------------------ *)
OrganizationId(n) == [ty |-> "OrganizationId", repr |-> n]
MerchantId(n) == [ty |-> "MerchantId", repr |-> n]
ProfileId(n) == [ty |-> "ProfileId", repr |-> n]

\* get_string_repr: the identifier's string, its type forgotten.
get_string_repr(id) == id.repr

get_internal_user_merchant_id == MerchantId(INTERNAL_USER_MERCHANT_ID)

OrgIds == {OrganizationId(n) : n \in 1..NOrgs}
RoleMerchantIds == {MerchantId(n) : n \in MerchantIds}
ProfileIds == {ProfileId(n) : n \in 1..NProfiles}
UserStatus == {"Active", "InvitationSent"}
RoleIds == {"org_admin"}

\* The entity-level values (lines 1174-1200).
NoLevel ==
    [level |-> "NoLevel", org_id |-> None, merchant_id |-> None, profile_id |-> None]
OrganizationLevel(o, m) ==
    [level |-> "OrganizationLevel", org_id |-> Some(o), merchant_id |-> Some(m),
     profile_id |-> None]
MerchantLevel(o, m) ==
    [level |-> "MerchantLevel", org_id |-> Some(o), merchant_id |-> Some(m),
     profile_id |-> None]
ProfileLevel(o, m, f) ==
    [level |-> "ProfileLevel", org_id |-> Some(o), merchant_id |-> Some(m),
     profile_id |-> Some(f)]
InternalLevel(o) ==
    [level |-> "InternalLevel", org_id |-> Some(o), merchant_id |-> None,
     profile_id |-> None]

Entities ==
    {NoLevel}
    \cup {OrganizationLevel(o, m) : o \in OrgIds, m \in RoleMerchantIds}
    \cup {MerchantLevel(o, m) : o \in OrgIds, m \in RoleMerchantIds}
    \cup {ProfileLevel(x[1], x[2], x[3]) : x \in OrgIds \X RoleMerchantIds \X ProfileIds}
    \cup {InternalLevel(o) : o \in OrgIds}

\* NewUser::get_no_level_user_role
get_no_level_user_role(user_id, role_id, user_status) ==
    [status |-> user_status,
     created_by |-> user_id,
     last_modified_by |-> user_id,
     user_id |-> user_id,
     role_id |-> role_id,
     entity |-> NoLevel]

\* NewUserRole<NoLevel>::add_entity
add_entity(self, entity) == [self EXCEPT !.entity = entity]

convert_to_new_v1_role(self, org_id, merchant_id) ==
    [user_id |-> self.user_id,
     role_id |-> self.role_id,
     status |-> self.status,
     created_by |-> self.created_by,
     last_modified_by |-> self.last_modified_by,
     org_id |-> Some(org_id),
     merchant_id |-> Some(merchant_id),
     profile_id |-> None,
     entity_id |-> None,
     entity_type |-> None,
     version |-> "V1"]

convert_to_new_v2_role(self, entity) ==
    [user_id |-> self.user_id,
     role_id |-> self.role_id,
     status |-> self.status,
     created_by |-> self.created_by,
     last_modified_by |-> self.last_modified_by,
     org_id |-> Some(entity.org_id),
     merchant_id |-> entity.merchant_id,
     profile_id |-> entity.profile_id,
     entity_id |-> Some(entity.entity_id),
     entity_type |-> Some(entity.entity_type),
     version |-> "V2"]

\* The V1 row with the merchant id of the entity in every scope.
new_v1_role_mutant(self) ==
    convert_to_new_v1_role(self, self.entity.org_id[1],
                           IF self.entity.merchant_id = None
                           THEN MerchantId(1)
                           ELSE self.entity.merchant_id[1])

\* The V1 row each scope's insertion operations build.
new_v1_role(self) ==
    LET entity == self.entity
    IN  IF entity.level = "InternalLevel"
        THEN convert_to_new_v1_role(self, entity.org_id[1], get_internal_user_merchant_id)
        ELSE convert_to_new_v1_role(self, entity.org_id[1], entity.merchant_id[1])

\* An EntityInfo that names the organization in every scope.
EntityInfo_mutant(entity) ==
    [org_id |-> entity.org_id[1], merchant_id |-> entity.merchant_id,
     profile_id |-> entity.profile_id,
     entity_id |-> get_string_repr(entity.org_id[1]),
     entity_type |-> "Organization"]

\* The EntityInfo each scope's insertion operations pass to convert_to_new_v2_role.
EntityInfo(entity) ==
    CASE entity.level = "OrganizationLevel" ->
            [org_id |-> entity.org_id[1], merchant_id |-> None, profile_id |-> None,
             entity_id |-> get_string_repr(entity.org_id[1]),
             entity_type |-> "Organization"]
      [] entity.level = "MerchantLevel" ->
            [org_id |-> entity.org_id[1], merchant_id |-> Some(entity.merchant_id[1]),
             profile_id |-> None,
             entity_id |-> get_string_repr(entity.merchant_id[1]),
             entity_type |-> "Merchant"]
      [] entity.level = "InternalLevel" ->
            [org_id |-> entity.org_id[1],
             merchant_id |-> Some(get_internal_user_merchant_id),
             profile_id |-> None,
             entity_id |-> get_string_repr(get_internal_user_merchant_id),
             entity_type |-> "Internal"]
      [] entity.level = "ProfileLevel" ->
            [org_id |-> entity.org_id[1], merchant_id |-> Some(entity.merchant_id[1]),
             profile_id |-> Some(entity.profile_id[1]),
             entity_id |-> get_string_repr(entity.profile_id[1]),
             entity_type |-> "Profile"]

new_v2_role(self) == convert_to_new_v2_role(self, EntityInfo(self.entity))

\* The insertion operations each impl block offers.
InsertOps_mutant(level) ==
    IF level = "NoLevel" THEN {}
    ELSE {"insert_in_v1", "insert_in_v2", "insert_in_v1_and_v2"}

InsertOps(level) ==
    CASE level = "NoLevel" -> {}
      [] level = "OrganizationLevel" -> {"insert_in_v1", "insert_in_v2", "insert_in_v1_and_v2"}
      [] level = "MerchantLevel" -> {"insert_in_v1_and_v2"}
      [] level = "InternalLevel" -> {"insert_in_v1_and_v2"}
      [] level = "ProfileLevel" -> {"insert_in_v2"}

\* InsertUserRolePayload
OnlyV1(r) == [kind |-> "OnlyV1", rows |-> <<r>>]
OnlyV2(r) == [kind |-> "OnlyV2", rows |-> <<r>>]
V1AndV2(r1, r2) == [kind |-> "V1AndV2", rows |-> <<r1, r2>>]

\* The payload insert_in_v1_and_v2 hands to insert_user_role (line 1291).
dual_payload_mutant(v1_role, v2_role) == OnlyV1(v1_role)

dual_payload(v1_role, v2_role) == V1AndV2(v1_role, v2_role)

InsertPayload(self, op) ==
    CASE op = "insert_in_v1" -> OnlyV1(new_v1_role(self))
      [] op = "insert_in_v2" -> OnlyV2(new_v2_role(self))
      [] op = "insert_in_v1_and_v2" -> dual_payload(new_v1_role(self), new_v2_role(self))

\* A stored row: the inserted values under the identity the table gives them.
UserRoleRow(new, by, k) ==
    [id |-> <<by, k>>] @@ new

\* The answers a successful insert_user_role may give: the rows it inserted,
\* in order; a store that does not echo every row answers with fewer.
RECURSIVE SubSeqs(_)
SubSeqs(sq) ==
    IF sq = <<>> THEN {<<>>}
    ELSE LET rest == SubSeqs(Tail(sq))
         IN  rest \cup {<<Head(sq)>> \o t : t \in rest}

\* insert_user_role of the store: the rows of one payload are inserted together or
\* not at all.
db_insert_user_role(table, payload, by, fault) ==
    LET rows == [k \in 1..Len(payload.rows) |-> UserRoleRow(payload.rows[k], by, k)]
    IN  IF fault THEN {[res |-> Err("db_error"), table |-> table]}
        ELSE {[res |-> Ok(echo), table |-> table \cup {rows[k] : k \in 1..Len(rows)}] :
                  echo \in SubSeqs(rows)}

\* .pop().ok_or(InternalServerError) of insert_in_v1 / insert_in_v2
pop_or_error(inserted_roles) ==
    IF inserted_roles = <<>> THEN Err("InternalServerError")
    ELSE Ok(inserted_roles[Len(inserted_roles)])

\* .find(|role| role.version == V1).ok_or(InternalServerError) (lines 1296-1299)
find_v1_or_error_mutant(inserted_roles) ==
    pop_or_error(inserted_roles)

find_v1_or_error_first(inserted_roles) ==
    IF inserted_roles = <<>> THEN Err("InternalServerError")
    ELSE Ok(inserted_roles[1])

find_v1_or_error(inserted_roles) ==
    LET hits == {i \in 1..Len(inserted_roles) : inserted_roles[i].version = "V1"}
    IN  IF hits = {} THEN Err("InternalServerError")
        ELSE Ok(inserted_roles[CHOOSE i \in hits : \A j \in hits : i <= j])

\* What an insertion operation returns for the store's answer.
insert_result(op, res) ==
    IF ~res.ok THEN Err("InternalServerError")
    ELSE IF op = "insert_in_v1_and_v2" THEN find_v1_or_error(res.val[1])
    ELSE pop_or_error(res.val[1])

RoleProcs == Procs

\* NewUserRole<NoLevel>::add_entity(entity)
AddEntity(p) ==
    /\ rpc[p] = "no_level"
    /\ \E entity \in Entities :
        /\ role' = [role EXCEPT ![p] = add_entity(@, entity)]
        /\ rpc' = [rpc EXCEPT ![p] = IF entity.level = "NoLevel" THEN "no_level" ELSE "scoped"]
    /\ UNCHANGED <<roleStore, rop, rcalls, rresult, provVars, keyVars, pwdVars, opsVars, valVars>>

\* insert_in_v1 / insert_in_v2 / insert_in_v1_and_v2 of the scope p's role is in
InsertRole(p) ==
    /\ rpc[p] \in {"no_level", "scoped"}
    /\ \E op \in InsertOps(role[p].entity.level), fault \in BOOLEAN :
        LET payload == InsertPayload(role[p], op)
        IN  \E r \in db_insert_user_role(roleStore, payload, p, fault) :
                /\ roleStore' = r.table
                /\ rop' = [rop EXCEPT ![p] = op]
                /\ rcalls' = [rcalls EXCEPT ![p] = Append(@, payload)]
                /\ rresult' = [rresult EXCEPT ![p] = Some(insert_result(op, r.res))]
                /\ rpc' = [rpc EXCEPT ![p] = "done"]
    /\ UNCHANGED <<role, provVars, keyVars, pwdVars, opsVars, valVars>>

RoleInit ==
    /\ roleStore = {}
    /\ role \in [RoleProcs ->
                    {get_no_level_user_role(u, r, st) :
                        u \in 1..NUsers, r \in RoleIds, st \in UserStatus}]
    /\ rpc = [p \in RoleProcs |-> "no_level"]
    /\ rop = [p \in RoleProcs |-> "none"]
    /\ rcalls = [p \in RoleProcs |-> <<>>]
    /\ rresult = [p \in RoleProcs |-> None]


(* ------------------------------------------------------------------------ *)
(* Key store manager: UserFromStorage::get_or_create_key_store              *)
(* ------------------------------------------------------------------------ *)
KeyUsers == 1..NUsers
RawKeys == 1..NKeys

\* The key encrypted under the master key (crypto_operation Encrypt).
Encrypted(key) == [kind |-> "encrypted", under |-> "master_key", of |-> key]

\* A key-store row that was in the table before any request of the model ran.
PreKeyStore(u) == [user_id |-> u, key |-> Encrypted(0), created_at |-> "before"]

\* get_user_key_store_by_user_id: the outcomes the store can answer with.
get_user_key_store_by_user_id(table, user_id) ==
    (IF \E r \in table : r.user_id = user_id
     THEN {[kind |-> "found", row |-> Some(r)] : r \in {x \in table : x.user_id = user_id}}
     ELSE {[kind |-> "not_found", row |-> None]})
        \cup {[kind |-> "db_error", row |-> None]}

\* insert_user_key_store of the store: one row per user id; a failed insert adds nothing.
db_insert_user_key_store(table, row, fault) ==
    IF fault THEN [res |-> Err("db_error"), table |-> table]
    ELSE IF \E r \in table : r.user_id = row.user_id
    THEN [res |-> Err("unique_violation"), table |-> table]
    ELSE [res |-> Ok(row), table |-> table \cup {row}]

\* lines 988-995, 1033: what the call does with the fetch outcome.
key_store_branch_mutant(kind) ==
    IF kind = "found" THEN "return" ELSE "create"

key_store_branch_always_create(kind) ==
    "create"

key_store_branch(kind) ==
    CASE kind = "found" -> "return"
      [] kind = "not_found" -> "create"
      [] OTHER -> "error"

\* lines 1028-1032: the insert's result, its error changed to InternalServerError.
inserted_key_store_mutant(res, new_row) ==
    Ok(new_row)

inserted_key_store(res, new_row) ==
    IF res.ok THEN res ELSE Err("InternalServerError")

KeyFinish(p, r) ==
    /\ kresult' = [kresult EXCEPT ![p] = Some(r)]
    /\ kpc' = [kpc EXCEPT ![p] = "done"]

\* The next await after the key was generated (lines 1000-1011 or 1013-1024).
after_generate == IF keymanager_create THEN "transfer" ELSE "encrypt"

\* get_user_key_store_by_user_id and, when it is to create, generate_aes256_key
\* (lines 977-998, 1034-1037)
FetchKeyStore(p) ==
    /\ kpc[p] = "fetch"
    /\ \E out \in get_user_key_store_by_user_id(keyStore, kuser[p]) :
        /\ kfetch' = [kfetch EXCEPT ![p] = out.kind]
        /\ CASE key_store_branch(out.kind) = "return" ->
                    /\ KeyFinish(p, Ok(out.row[1]))
                    /\ UNCHANGED <<kkey, kcalls>>
             [] key_store_branch(out.kind) = "create" ->
                    /\ kcalls' = [kcalls EXCEPT ![p] = Append(@, "generate_aes256_key")]
                    /\ \/ /\ \E key \in RawKeys : kkey' = [kkey EXCEPT ![p] = Some(key)]
                          /\ kpc' = [kpc EXCEPT ![p] = after_generate]
                          /\ UNCHANGED kresult
                       \/ /\ KeyFinish(p, Err("InternalServerError"))
                          /\ UNCHANGED kkey
             [] key_store_branch(out.kind) = "error" ->
                    /\ KeyFinish(p, Err("InternalServerError"))
                    /\ UNCHANGED <<kkey, kcalls>>
    /\ UNCHANGED <<keyStore, keymanager_create, kuser, key_store, provVars, roleVars, pwdVars, opsVars, valVars>>

\* transfer_key_to_key_manager (lines 1000-1011)
TransferKey(p) ==
    /\ kpc[p] = "transfer"
    /\ kcalls' = [kcalls EXCEPT ![p] = Append(@, "transfer_key_to_key_manager")]
    /\ \E fault \in BOOLEAN :
        IF fault
        THEN KeyFinish(p, Err("InternalServerError"))
        ELSE /\ kpc' = [kpc EXCEPT ![p] = "encrypt"]
             /\ UNCHANGED kresult
    /\ UNCHANGED <<keyStore, keymanager_create, kuser, kfetch, kkey, key_store, provVars, roleVars, pwdVars, opsVars, valVars>>

\* crypto_operation(Encrypt(key)) under the master key and the row built of it
\* (lines 1013-1026)
EncryptKey(p) ==
    /\ kpc[p] = "encrypt"
    /\ \E fault \in BOOLEAN :
        IF fault
        THEN /\ KeyFinish(p, Err("InternalServerError"))
             /\ UNCHANGED key_store
        ELSE /\ key_store' = [key_store EXCEPT ![p] =
                                 Some([user_id |-> kuser[p], key |-> Encrypted(kkey[p][1]),
                                       created_at |-> "now"])]
             /\ kpc' = [kpc EXCEPT ![p] = "insert"]
             /\ UNCHANGED kresult
    /\ UNCHANGED <<keyStore, keymanager_create, kuser, kfetch, kkey, kcalls, provVars, roleVars, pwdVars, opsVars, valVars>>

\* insert_user_key_store (lines 1028-1032)
InsertKeyStore(p) ==
    /\ kpc[p] = "insert"
    /\ kcalls' = [kcalls EXCEPT ![p] = Append(@, "insert_user_key_store")]
    /\ \E fault \in BOOLEAN :
        LET r == db_insert_user_key_store(keyStore, key_store[p][1], fault)
        IN  /\ keyStore' = r.table
            /\ KeyFinish(p, inserted_key_store(r.res, key_store[p][1]))
    /\ UNCHANGED <<keymanager_create, kuser, kfetch, kkey, key_store, provVars, roleVars, pwdVars, opsVars, valVars>>

KeyInit ==
    /\ \E have \in SUBSET KeyUsers : keyStore = {PreKeyStore(u) : u \in have}
    /\ keymanager_create \in BOOLEAN
    /\ kuser \in [Procs -> KeyUsers]
    /\ kpc = [p \in Procs |-> "fetch"]
    /\ kfetch = [p \in Procs |-> "none"]
    /\ kkey = [p \in Procs |-> None]
    /\ key_store = [p \in Procs |-> None]
    /\ kcalls = [p \in Procs |-> <<>>]
    /\ kresult = [p \in Procs |-> None]

(* ------------------------------------------------------------------------ *)
(* Credential comparison: UserFromStorage::compare_password                 *)
(* ------------------------------------------------------------------------ *)
\* TryFrom<ConnectAccountRequest> for NewUser: the aggregate carries no password.
NewUser_from_ConnectAccountRequest(user_id, email, merchant_id) ==
    [user_id |-> user_id, email |-> email, password |-> None, merchant_id |-> merchant_id]

\* A request shape that carries a password (SignUpRequest and the like).
NewUser_with_password(user_id, email, password, merchant_id) ==
    [user_id |-> user_id, email |-> email, password |-> Some(Plain(password)),
     merchant_id |-> merchant_id]

\* The user rows compare_password can meet: rows inserted for a NewUser, and rows
\* whose password column holds something that is no well-formed hash.
StoredUsers ==
    LET provisioned ==
            {NewUser_from_ConnectAccountRequest(<<"uuid", 1>>, e, 1) : e \in Emails}
            \cup {NewUser_with_password(<<"uuid", 1>>, e, w, 1) : e \in Emails, w \in Passwords}
        rows == {UserNew_try_from(nu, TRUE).val[1] : nu \in provisioned}
    IN  rows \cup {[r EXCEPT !.password = Some([kind |-> "corrupt", of |-> 0])] : r \in rows}

\* password::is_correct_password: Ok(true) on a match, Ok(false) on a mismatch,
\* an error when the stored value cannot be parsed or the verification fails.
is_correct_password(candidate, password, fault) ==
    IF fault \/ password.kind # "argon2" THEN Err("InternalServerError")
    ELSE Ok(password.of = candidate.of)

compare_password_mutant(self, verified) ==
    IF self.password # None
    THEN IF ~verified.ok THEN verified
         ELSE IF verified.val[1] THEN Ok("unit") ELSE Err("InvalidCredentials")
    ELSE Ok("unit")

\* UserFromStorage::compare_password; verified is is_correct_password's answer,
\* read only when a password is stored.
compare_password(self, verified) ==
    IF self.password # None
    THEN IF ~verified.ok THEN verified
         ELSE IF verified.val[1] THEN Ok("unit") ELSE Err("InvalidCredentials")
    ELSE Err("InvalidCredentials")

ComparePassword ==
    /\ Len(cmpLog) < MaxCompares
    /\ \E candidate \in {Plain(w) : w \in Passwords}, fault \in BOOLEAN :
        LET stored == storedUser.password
            verified == IF stored # None
                        THEN is_correct_password(candidate, stored[1], fault)
                        ELSE Err("not_called")
        IN  cmpLog' = Append(cmpLog,
                             [candidate |-> candidate,
                              verified |-> IF stored # None THEN Some(verified) ELSE None,
                              result |-> compare_password(storedUser, verified)])
    /\ UNCHANGED <<storedUser, provVars, roleVars, keyVars, opsVars, valVars>>

PwdInit ==
    /\ storedUser \in StoredUsers
    /\ cmpLog = <<>>

(* ------------------------------------------------------------------------ *)
(* Operations run one after another, each from start to end:                *)
(* insert_user_in_db, insert_org_in_db, get_or_create_key_store,            *)
(* decrypt_and_get_totp_secret                                              *)
(* ------------------------------------------------------------------------ *)
\* NewUserOrganization(diesel_org::OrganizationNew)
NewUserOrganization(org_id, org_name) == [org_id |-> org_id, org_name |-> org_name]

NewOrganizations == {NewUserOrganization(o, n) : o \in OrgIds, n \in {None, Some("company")}}

\* insert_organization of the store: the organization id is unique; a failed insert
\* adds nothing.
db_insert_organization(table, row, fault) ==
    IF fault THEN [res |-> Err("db_error"), table |-> table]
    ELSE IF \E r \in table : r.org_id = row.org_id
    THEN [res |-> Err("unique_violation"), table |-> table]
    ELSE [res |-> Ok(row), table |-> table \cup {row}]

\* lines 247-253
insert_org_error_mutant(e) ==
    "DuplicateOrganizationId"

insert_org_error(e) ==
    IF is_db_unique_violation(e) THEN "DuplicateOrganizationId" ELSE "InternalServerError"

\* NewUserOrganization::insert_org_in_db
insert_org_in_db(self, table, fault) ==
    LET ins == db_insert_organization(table, self, fault)
    IN  IF ins.res.ok THEN ins
        ELSE [res |-> Err(insert_org_error(ins.res.err)), table |-> ins.table]

\* How a store call ended, as the store reported it.
StoreAnswer(res) == IF res.ok THEN "ok" ELSE res.err

NoOperation ==
    [op |-> "none", arg |-> None, store |-> "not_called", calls |-> <<>>,
     row |-> None, added |-> {}, res |-> Err("none")]

\* The NewUser values insert_user_in_db is called on: the merchant is no part of the
\* user row.
OpsNewUsers == {value \in NewUserValues(1) : value.merchant_id = 1}

\* NewUser::insert_user_in_db, called on its own
InsertUserInDb ==
    /\ \E value \in OpsNewUsers, hashFault \in BOOLEAN, fault \in BOOLEAN :
        LET conv == UserNew_try_from(value, ~hashFault)
            r == insert_user_in_db(value, users, ~hashFault, fault)
        IN  /\ users' = r.table
            /\ last' = [op |-> "insert_user_in_db",
                        arg |-> Some(value),
                        store |-> IF conv.ok
                                  THEN StoreAnswer(db_insert_user(users, conv.val[1], fault).res)
                                  ELSE "not_called",
                        calls |-> IF conv.ok THEN <<"insert_user">> ELSE <<>>,
                        row |-> IF conv.ok THEN conv.val ELSE None,
                        added |-> r.table \ users,
                        res |-> r.res]
    /\ UNCHANGED <<merchants, newUser, pc, created_user, result, trace, deleteRes, faulty,
                   organizations, roleVars, keyVars, pwdVars, valVars>>

\* NewUserOrganization::insert_org_in_db
InsertOrgInDb ==
    /\ \E self \in NewOrganizations, fault \in BOOLEAN :
        LET r == insert_org_in_db(self, organizations, fault)
        IN  /\ organizations' = r.table
            /\ last' = [op |-> "insert_org_in_db",
                        arg |-> Some(self),
                        store |-> StoreAnswer(db_insert_organization(organizations, self,
                                                                     fault).res),
                        calls |-> <<"insert_organization">>,
                        row |-> Some(self),
                        added |-> r.table \ organizations,
                        res |-> r.res]
    /\ UNCHANGED <<provVars, roleVars, keyVars, pwdVars, valVars>>

\* UserFromStorage::get_or_create_key_store run from start to end: fetched is the
\* store's answer to the fetch, key the generated key, fail the step that fails.
get_or_create_key_store(table, user_id, fetched, key, fail) ==
    LET branch == key_store_branch(fetched.kind)
        generated == <<"generate_aes256_key">>
        transferred == IF keymanager_create
                       THEN generated \o <<"transfer_key_to_key_manager">>
                       ELSE generated
        new_row == [user_id |-> user_id, key |-> Encrypted(key), created_at |-> "now"]
        ins == db_insert_user_key_store(table, new_row, fail = "insert")
        unchanged(r, calls) == [res |-> r, table |-> table, calls |-> calls, row |-> None]
    IN  CASE branch = "return" -> unchanged(Ok(fetched.row[1]), <<>>)
          [] branch = "error" -> unchanged(Err("InternalServerError"), <<>>)
          [] branch = "create" /\ fail = "generate" ->
                unchanged(Err("InternalServerError"), generated)
          [] branch = "create" /\ fail = "transfer" /\ keymanager_create ->
                unchanged(Err("InternalServerError"), transferred)
          [] branch = "create" /\ fail = "encrypt" ->
                unchanged(Err("InternalServerError"), transferred)
          [] OTHER ->
                [res |-> inserted_key_store(ins.res, new_row),
                 table |-> ins.table,
                 calls |-> transferred \o <<"insert_user_key_store">>,
                 row |-> Some(new_row)]

KeyFailures == {"none", "generate", "transfer", "encrypt", "insert"}

GetOrCreateKeyStore ==
    /\ \E user_id \in KeyUsers :
        \E fetched \in get_user_key_store_by_user_id(keyStore, user_id) :
            \E key \in RawKeys,
               fail \in IF key_store_branch(fetched.kind) = "create" THEN KeyFailures
                        ELSE {"none"} :
                LET r == get_or_create_key_store(keyStore, user_id, fetched, key, fail)
                IN  /\ key_store_branch(fetched.kind) # "create" => key = 1
                    /\ keyStore' = r.table
                    /\ last' = [op |-> "get_or_create_key_store",
                                arg |-> Some(user_id),
                                store |-> fetched.kind,
                                calls |-> r.calls,
                                row |-> r.row,
                                added |-> r.table \ keyStore,
                                res |-> r.res]
    /\ UNCHANGED <<keymanager_create, kuser, kpc, kfetch, kkey, key_store, kcalls, kresult,
                   organizations, provVars, roleVars, pwdVars, valVars>>

\* A TOTP secret as stored: the secret encrypted under a user key.
TotpCiphertext(key) == [kind |-> "encrypted", under |-> key, of |-> "totp_secret"]

\* The users decrypt_and_get_totp_secret is called on.
TotpUsers ==
    {[user_id |-> u, totp_secret |-> t] :
        u \in KeyUsers, t \in {None} \cup {Some(TotpCiphertext(k)) : k \in RawKeys}}

\* crypto_operation(DecryptOptional(secret)) with try_into_optionaloperation: the
\* decryption is authenticated, so it succeeds only under the key that encrypted.
decrypt_optional(secret, key, fault) ==
    IF secret = None THEN Ok(None)
    ELSE IF fault \/ key.kind # "encrypted" \/ secret[1].under # key.of
    THEN Err("decryption_failed")
    ELSE Ok(Some(secret[1].of))

decrypt_and_get_totp_secret_mutant(self, table, fetched, fault) ==
    LET failed(calls) == [res |-> Ok(None), table |-> table, calls |-> calls]
        decrypted == decrypt_optional(self.totp_secret, fetched.row[1].key, fault)
    IN  IF self.totp_secret = None THEN [res |-> Ok(None), table |-> table, calls |-> <<>>]
        ELSE IF fetched.kind # "found" THEN failed(<<"get_user_key_store_by_user_id">>)
        ELSE IF ~decrypted.ok
        THEN failed(<<"get_user_key_store_by_user_id", "crypto_operation">>)
        ELSE [res |-> decrypted,
              table |-> table,
              calls |-> <<"get_user_key_store_by_user_id", "crypto_operation">>]

\* A missing key store is created, as get_or_create_key_store would.
decrypt_and_get_totp_secret_creates(self, table, fetched, fault) ==
    LET created == get_or_create_key_store(table, self.user_id, fetched, 1, "none")
        decrypted == decrypt_optional(self.totp_secret, fetched.row[1].key, fault)
    IN  IF self.totp_secret = None THEN [res |-> Ok(None), table |-> table, calls |-> <<>>]
        ELSE IF fetched.kind = "not_found"
        THEN [res |-> Err("InternalServerError"),
              table |-> created.table,
              calls |-> <<"get_user_key_store_by_user_id">> \o created.calls]
        ELSE IF fetched.kind # "found"
        THEN [res |-> Err("InternalServerError"), table |-> table,
              calls |-> <<"get_user_key_store_by_user_id">>]
        ELSE IF ~decrypted.ok
        THEN [res |-> Err("InternalServerError"), table |-> table,
              calls |-> <<"get_user_key_store_by_user_id", "crypto_operation">>]
        ELSE [res |-> decrypted,
              table |-> table,
              calls |-> <<"get_user_key_store_by_user_id", "crypto_operation">>]

\* UserFromStorage::decrypt_and_get_totp_secret run from start to end: its
\* result, the key-store table after it and the collaborators it called.
decrypt_and_get_totp_secret(self, table, fetched, fault) ==
    LET failed(calls) == [res |-> Err("InternalServerError"), table |-> table,
                          calls |-> calls]
        decrypted == decrypt_optional(self.totp_secret, fetched.row[1].key, fault)
    IN  IF self.totp_secret = None THEN [res |-> Ok(None), table |-> table, calls |-> <<>>]
        ELSE IF fetched.kind # "found" THEN failed(<<"get_user_key_store_by_user_id">>)
        ELSE IF ~decrypted.ok
        THEN failed(<<"get_user_key_store_by_user_id", "crypto_operation">>)
        ELSE [res |-> decrypted,
              table |-> table,
              calls |-> <<"get_user_key_store_by_user_id", "crypto_operation">>]

DecryptAndGetTotpSecret ==
    /\ \E self \in TotpUsers, fault \in BOOLEAN :
        \E fetched \in get_user_key_store_by_user_id(keyStore, self.user_id) :
            LET r == decrypt_and_get_totp_secret(self, keyStore, fetched, fault)
            IN  /\ keyStore' = r.table
                /\ last' = [op |-> "decrypt_and_get_totp_secret",
                            arg |-> Some(self),
                            store |-> IF r.calls = <<>> THEN "not_called" ELSE fetched.kind,
                            calls |-> r.calls,
                            row |-> None,
                            added |-> r.table \ keyStore,
                            res |-> r.res]
    /\ UNCHANGED <<keymanager_create, kuser, kpc, kfetch, kkey, key_store, kcalls, kresult,
                   organizations, provVars, roleVars, pwdVars, valVars>>

OpsInit ==
    /\ organizations = {}
    /\ last = NoOperation

(* --------------------------------------------- role operations, one at a time *)
\* The most rows the role table holds.
MaxRoleRows == 2

\* The identity the table gives the rows of the next insertion.
NextRoleKey == Cardinality(roleStore) + 1

\* The roles that offer insert_in_v1_and_v2.
DualWriteRoles ==
    {add_entity(get_no_level_user_role(u, r, st), entity) :
        u \in 1..NUsers, r \in RoleIds, st \in UserStatus,
        entity \in {e \in Entities : "insert_in_v1_and_v2" \in InsertOps(e.level)}}

\* insert_in_v1_and_v2 of a scope with insert_v1_and_v2_in_db_and_get_v1
\* (lines 1284-1300), as one operation.
InsertInV1AndV2 ==
    /\ Cardinality(roleStore) + 2 <= MaxRoleRows
    /\ \E self \in DualWriteRoles, fault \in BOOLEAN :
        LET payload == InsertPayload(self, "insert_in_v1_and_v2")
        IN  \E r \in db_insert_user_role(roleStore, payload, NextRoleKey, fault) :
                /\ roleStore' = r.table
                /\ last' = [op |-> "insert_in_v1_and_v2",
                            arg |-> Some(self),
                            store |-> StoreAnswer(r.res),
                            calls |-> <<payload>>,
                            row |-> r.res.val,
                            added |-> r.table \ roleStore,
                            res |-> insert_result("insert_in_v1_and_v2", r.res)]
    /\ UNCHANGED <<role, rpc, rop, rcalls, rresult, organizations,
                   provVars, keyVars, pwdVars, valVars>>

\* The NewUser values whose role is attached: the user id, the merchant id and
\* the organization of the new merchant; two users and two merchants of one
\* organization.
RoleNewUsers ==
    {[user_id |-> <<"uuid", u>>, merchant_id |-> m,
      new_organization |-> NewUserOrganization(OrganizationId(1), None)] :
        u \in {1, 2}, m \in {1, 2}}

\* UserRoleVersion, as the Option the caller passes
RoleVersions == {None, Some("V1"), Some("V2")}

\* The operation the match on version selects (lines 679-683).
version_op_mutant(version) ==
    CASE version = Some("V1") -> "insert_in_v1"
      [] version = Some("V2") -> "insert_in_v2"
      [] OTHER -> "insert_in_v1"

version_op(version) ==
    CASE version = Some("V1") -> "insert_in_v1"
      [] version = Some("V2") -> "insert_in_v2"
      [] version = None -> "insert_in_v1_and_v2"

\* lines 666-677: the Organization-scoped role of the new user
org_user_role(self, role_id, user_status) ==
    LET org_id == self.new_organization.org_id
        merchant_id == MerchantId(self.merchant_id)
    IN  add_entity(get_no_level_user_role(self.user_id, role_id, user_status),
                   OrganizationLevel(org_id, merchant_id))

\* NewUser::insert_org_level_user_role_in_db
InsertOrgLevelUserRoleInDb ==
    /\ \E self \in RoleNewUsers, role_id \in RoleIds, user_status \in UserStatus,
          version \in RoleVersions, fault \in BOOLEAN :
        LET new_role == org_user_role(self, role_id, user_status)
            insert == version_op(version)
            payload == InsertPayload(new_role, insert)
        IN  /\ Cardinality(roleStore) + Len(payload.rows) <= MaxRoleRows
            /\ \E r \in db_insert_user_role(roleStore, payload, NextRoleKey, fault) :
                /\ roleStore' = r.table
                /\ last' = [op |-> "insert_org_level_user_role_in_db",
                            arg |-> Some([self |-> self, role_id |-> role_id,
                                          user_status |-> user_status,
                                          version |-> version]),
                            store |-> StoreAnswer(r.res),
                            calls |-> <<payload>>,
                            row |-> r.res.val,
                            added |-> r.table \ roleStore,
                            res |-> insert_result(insert, r.res)]
    /\ UNCHANGED <<role, rpc, rop, rcalls, rresult, organizations,
                   provVars, keyVars, pwdVars, valVars>>

\* The orders in which the store may list a set of rows.
Orderings(rows) ==
    {sq \in [1..Cardinality(rows) -> rows] :
        \A i, j \in 1..Cardinality(rows) : i # j => sq[i] # sq[j]}

\* find_user_role_by_user_id_merchant_id of the store: a row of the user, the
\* merchant and the version, ValueNotFound when there is none, or a failure.
find_user_role_by_user_id_merchant_id(table, user_id, merchant_id, version) ==
    LET hits == {r \in table : /\ r.user_id = user_id
                               /\ r.merchant_id = Some(merchant_id)
                               /\ r.version = version}
    IN  (IF hits = {} THEN {Err("ValueNotFound")} ELSE {Ok(r) : r \in hits})
            \cup {Err("DatabaseError")}

\* list_user_roles_by_user_id_and_version of the store: the rows of the user
\* and the version, in the order the store lists them, or a failure.
list_user_roles_by_user_id_and_version(table, user_id, version) ==
    {Ok(roles) :
        roles \in Orderings({r \in table : r.user_id = user_id /\ r.version = version})}
        \cup {Err("DatabaseError")}

\* UserFromStorage::get_role_from_db_by_merchant_id: the V1 role is asked for.
get_role_from_db_by_merchant_id(self, table, merchant_id) ==
    find_user_role_by_user_id_merchant_id(table, self.user_id, merchant_id, "V1")

\* The first row of the list, whatever its status.
find_active_mutant(roles) ==
    IF roles = <<>> THEN Err("ValueNotFound") ELSE Ok(roles[1])

\* .into_iter().find(|role| role.status == Active).ok_or(ValueNotFound)
find_active(roles) ==
    LET hits == {i \in 1..Len(roles) : roles[i].status = "Active"}
    IN  IF hits = {} THEN Err("ValueNotFound")
        ELSE Ok(roles[CHOOSE i \in hits : \A j \in hits : i <= j])

\* The users whose role is looked up, with and without a preferred merchant.
LookupUsers ==
    {[user_id |-> <<"uuid", u>>, preferred_merchant_id |-> pref] :
        u \in {1, 2}, pref \in {None} \cup {Some(MerchantId(m)) : m \in {1, 2}}}

\* UserFromStorage::get_preferred_or_active_user_role_from_db
GetPreferredOrActiveUserRoleFromDb ==
    /\ \E self \in LookupUsers :
        IF self.preferred_merchant_id # None
        THEN \E found \in get_role_from_db_by_merchant_id(self, roleStore,
                                                          self.preferred_merchant_id[1]) :
                last' = [op |-> "get_preferred_or_active_user_role_from_db",
                         arg |-> Some(self),
                         store |-> StoreAnswer(found),
                         calls |-> <<"find_user_role_by_user_id_merchant_id">>,
                         row |-> found.val,
                         added |-> {},
                         res |-> found]
        ELSE \E listed \in list_user_roles_by_user_id_and_version(roleStore,
                                                                  self.user_id, "V1") :
                last' = [op |-> "get_preferred_or_active_user_role_from_db",
                         arg |-> Some(self),
                         store |-> StoreAnswer(listed),
                         calls |-> <<"list_user_roles_by_user_id_and_version">>,
                         row |-> listed.val,
                         added |-> {},
                         res |-> IF listed.ok THEN find_active(listed.val[1]) ELSE listed]
    /\ UNCHANGED <<roleVars, organizations, provVars, keyVars, pwdVars, valVars>>

(* ------------------------------------------------------------------------ *)
(* Validated value objects                                                  *)
(*                                                                          *)
(* A string is a sequence of characters.  A character is named after what   *)
(* the standard library's predicates say of it:                             *)
(*   "A"      uppercase letter          "a"    lowercase letter             *)
(*   "1"      decimal digit             "half" a numeral that is no digit   *)
(*   "!"      punctuation               "_"    underscore                   *)
(*   " "      space                     "tab"  whitespace other than space  *)
(*   "/"      a character forbidden in names                                *)
(*   "mark"   combining mark: no letter, no numeral; it joins the grapheme  *)
(*            of the character before it                                    *)
(*   "I_dot"  uppercase letter whose lowercase is "i" followed by "mark"    *)
(*   "e_acute" lowercase letter outside ASCII                               *)
(* ------------------------------------------------------------------------ *)
is_uppercase(c) == c \in {"A", "I_dot"}
is_lowercase(c) == c \in {"a", "i", "e_acute"}
is_numeric(c) == c \in {"1", "half"}
is_alphabetic(c) == is_uppercase(c) \/ is_lowercase(c)
is_alphanumeric(c) == is_alphabetic(c) \/ is_numeric(c)
is_whitespace(c) == c \in {" ", "tab"}
is_ascii(c) == c \notin {"half", "mark", "I_dot", "e_acute"}

\* name.graphemes(true).count()
graphemes_count(str) ==
    Cardinality({i \in 1..Len(str) : str[i] # "mark" \/ i = 1})

\* str.trim()
RECURSIVE trim_start(_)
trim_start(str) ==
    IF str # <<>> /\ is_whitespace(Head(str)) THEN trim_start(Tail(str)) ELSE str

RECURSIVE trim_end(_)
trim_end(str) ==
    IF str # <<>> /\ is_whitespace(str[Len(str)])
    THEN trim_end(SubSeq(str, 1, Len(str) - 1))
    ELSE str

trim(str) == trim_end(trim_start(str))

\* str.to_lowercase()
lowercase_of(c) ==
    CASE c = "A" -> <<"a">>
      [] c = "I_dot" -> <<"i", "mark">>
      [] OTHER -> <<c>>

RECURSIVE to_lowercase(_)
to_lowercase(str) ==
    IF str = <<>> THEN <<>> ELSE lowercase_of(Head(str)) \o to_lowercase(Tail(str))

\* The strings of at most n characters over chars.
Strings(chars, n) == UNION {[1..k -> chars] : k \in 0..n}

\* consts::user::MIN_PASSWORD_LENGTH and MAX_PASSWORD_LENGTH, scaled down
MIN_PASSWORD_LENGTH == 4
MAX_PASSWORD_LENGTH == 5

UserPassword_new_mutant(password) ==
    LET has(P(_)) == \E i \in 1..Len(password) : P(password[i])
        special(c) == ~is_alphanumeric(c)
        is_password_format_valid ==
            /\ has(is_uppercase) /\ has(is_lowercase) /\ has(is_numeric) /\ has(special)
            /\ ~has(is_whitespace)
        is_too_long == Len(password) > MAX_PASSWORD_LENGTH
        is_too_short == Len(password) < MIN_PASSWORD_LENGTH
    IN  IF is_too_short \/ is_too_long \/ ~is_password_format_valid
        THEN Err("PasswordParsingError")
        ELSE Ok(password)

\* UserPassword::new
UserPassword_new(password) ==
    LET has(P(_)) == \E i \in 1..Len(password) : P(password[i])
        special(c) == ~is_alphanumeric(c)
        is_password_format_valid ==
            /\ has(is_uppercase) /\ has(is_lowercase) /\ has(is_numeric) /\ has(special)
            /\ ~has(is_whitespace)
        is_too_long == graphemes_count(password) > MAX_PASSWORD_LENGTH
        is_too_short == graphemes_count(password) < MIN_PASSWORD_LENGTH
    IN  IF is_too_short \/ is_too_long \/ ~is_password_format_valid
        THEN Err("PasswordParsingError")
        ELSE Ok(password)

\* UserPassword::new_password_without_validation
new_password_without_validation(password) ==
    IF password = <<>> THEN Err("PasswordParsingError") ELSE Ok(password)

PasswordChars == {"A", "a", "1", "half", "!", " ", "mark"}

PasswordInputs ==
    {[fn |-> "UserPassword::new", arg |-> str] :
        str \in Strings(PasswordChars, MAX_PASSWORD_LENGTH + 1)}
    \cup {[fn |-> "UserPassword::new_password_without_validation", arg |-> str] :
            str \in Strings(PasswordChars, 2)}

UserPasswordNew ==
    /\ input.fn = "UserPassword::new"
    /\ outputs = <<>>
    /\ outputs' = <<UserPassword_new(input.arg)>>
    /\ UNCHANGED <<BLOCKED_EMAIL, input, provVars, roleVars, keyVars, pwdVars, opsVars>>

UserPasswordNewWithoutValidation ==
    /\ input.fn = "UserPassword::new_password_without_validation"
    /\ outputs = <<>>
    /\ outputs' = <<new_password_without_validation(input.arg)>>
    /\ UNCHANGED <<BLOCKED_EMAIL, input, provVars, roleVars, keyVars, pwdVars, opsVars>>

\* consts::user_role::MAX_ROLE_NAME_LENGTH, scaled down
MAX_ROLE_NAME_LENGTH == 3

RoleName_new_mutant(name) ==
    LET is_empty_or_whitespace == trim(name) = <<>>
        is_too_long == graphemes_count(name) > MAX_ROLE_NAME_LENGTH
        contains_space == \E i \in 1..Len(name) : name[i] = " "
    IN  IF is_empty_or_whitespace \/ is_too_long \/ contains_space
        THEN Err("RoleNameParsingError")
        ELSE Ok(name)

\* RoleName::new
RoleName_new(name) ==
    LET is_empty_or_whitespace == trim(name) = <<>>
        is_too_long == graphemes_count(name) > MAX_ROLE_NAME_LENGTH
        contains_space == \E i \in 1..Len(name) : name[i] = " "
    IN  IF is_empty_or_whitespace \/ is_too_long \/ contains_space
        THEN Err("RoleNameParsingError")
        ELSE Ok(to_lowercase(name))

RoleNameChars == {"A", "a", " ", "tab", "I_dot", "mark"}

RoleNameInputs ==
    {[fn |-> "RoleName::new", arg |-> str] :
        str \in Strings(RoleNameChars, MAX_ROLE_NAME_LENGTH + 1)}

RoleNameNew ==
    /\ input.fn = "RoleName::new"
    /\ outputs = <<>>
    /\ outputs' = <<RoleName_new(input.arg)>>
    /\ UNCHANGED <<BLOCKED_EMAIL, input, provVars, roleVars, keyVars, pwdVars, opsVars>>

(* An e-mail address is a sequence of tokens: local parts, "@", domains and  *)
(* " " (a space, which no valid address contains).                          *)
EmailLocals == {"alice", "a/b"}
EmailDomains == {"blocked.com", "BLOCKED.COM", "ok.com"}
EmailTokens == EmailLocals \cup EmailDomains \cup {"@", " "}

\* ../../utils/user/blocker_emails.txt: its lines, as included at build time.
blocker_emails_txt == {<<"blocked.com", " ">>, <<>>}

\* lines 89-96: the lines, trimmed, as a set.
load_blocked_emails == {trim(line) : line \in blocker_emails_txt}

\* Lazy::force: the set is computed at the first access and kept.
force(lazy) == IF lazy = None THEN load_blocked_emails ELSE lazy[1]

\* validator::ValidateEmail::validate_email
validate_email(str) ==
    /\ Len(str) = 3
    /\ str[1] \in EmailLocals /\ str[2] = "@" /\ str[3] \in EmailDomains

\* str.split_once(delimiter): the parts before and after the first delimiter.
split_once(str, delimiter) ==
    LET at == {i \in 1..Len(str) : str[i] = delimiter}
        first == CHOOSE i \in at : \A j \in at : i <= j
    IN  IF at = {} THEN None
        ELSE Some(<<SubSeq(str, 1, first - 1), SubSeq(str, first + 1, Len(str))>>)

\* BLOCKED_EMAIL.contains(domain)
is_blocked_mutant(blocked, domain) ==
    FALSE

is_blocked(blocked, domain) ==
    domain \in blocked

\* UserEmail::from_pii_email
from_pii_email(email, blocked) ==
    IF validate_email(email)
    THEN LET parts == split_once(email, "@")
         IN  IF parts = None THEN Err("EmailParsingError")
             ELSE IF is_blocked(blocked, parts[1][2]) THEN Err("InvalidEmailError")
             ELSE Ok(email)
    ELSE Err("EmailParsingError")

\* UserEmail::new; from_str_ok: whether pii::Email::from_str accepted the string
UserEmail_new(email_string, from_str_ok, blocked) ==
    IF ~from_str_ok THEN Err("EmailParsingError")
    ELSE IF validate_email(email_string)
    THEN LET parts == split_once(email_string, "@")
         IN  IF parts = None THEN Err("EmailParsingError")
             ELSE IF is_blocked(blocked, parts[1][2]) THEN Err("InvalidEmailError")
             ELSE Ok(email_string)
    ELSE Err("EmailParsingError")

\* Whether a call on this address reads BLOCKED_EMAIL (lines 112, 130).
reads_blocked(email, from_str_ok) ==
    from_str_ok /\ validate_email(email) /\ split_once(email, "@") # None

EmailInputs ==
    {[fn |-> "UserEmail::new", arg |-> str, from_str_ok |-> b] :
        str \in Strings(EmailTokens, 4), b \in BOOLEAN}
    \cup {[fn |-> "UserEmail::from_pii_email", arg |-> str, from_str_ok |-> TRUE] :
            str \in Strings(EmailTokens, 4)}

UserEmailNew ==
    /\ input.fn = "UserEmail::new"
    /\ Len(outputs) < MaxCalls
    /\ outputs' = Append(outputs,
                         UserEmail_new(input.arg, input.from_str_ok, force(BLOCKED_EMAIL)))
    /\ BLOCKED_EMAIL' = IF reads_blocked(input.arg, input.from_str_ok)
                        THEN Some(force(BLOCKED_EMAIL))
                        ELSE BLOCKED_EMAIL
    /\ UNCHANGED <<input, provVars, roleVars, keyVars, pwdVars, opsVars>>

UserEmailFromPiiEmail ==
    /\ input.fn = "UserEmail::from_pii_email"
    /\ Len(outputs) < MaxCalls
    /\ outputs' = Append(outputs, from_pii_email(input.arg, force(BLOCKED_EMAIL)))
    /\ BLOCKED_EMAIL' = IF reads_blocked(input.arg, TRUE)
                        THEN Some(force(BLOCKED_EMAIL))
                        ELSE BLOCKED_EMAIL
    /\ UNCHANGED <<input, provVars, roleVars, keyVars, pwdVars, opsVars>>

(* ----------------------------------------------------- NewUser from a request *)
\* consts::user::MAX_NAME_LENGTH and MAX_COMPANY_NAME_LENGTH, scaled down
MAX_NAME_LENGTH == 3
MAX_COMPANY_NAME_LENGTH == 3

is_ascii_whitespace(c) == c \in {" ", "tab"}

\* line 56: "/" stands for the forbidden characters
forbidden_characters == {"/"}

\* UserName::new
UserName_new(name) ==
    LET is_empty_or_whitespace == trim(name) = <<>>
        is_too_long == graphemes_count(name) > MAX_NAME_LENGTH
        contains_forbidden_characters ==
            \E i \in 1..Len(name) : name[i] \in forbidden_characters
    IN  IF is_empty_or_whitespace \/ is_too_long \/ contains_forbidden_characters
        THEN Err("NameParsingError")
        ELSE Ok(name)

\* The characters of a part of an address.
chars_of(token) ==
    CASE token = "alice" -> <<"a", "a">>
      [] token = "a/b" -> <<"a", "/", "a">>
      [] token = " " -> <<" ">>
      [] token = "@" -> <<"!">>
      [] OTHER -> <<"a", "!", "a">>

RECURSIVE to_string(_)
to_string(tokens) ==
    IF tokens = <<>> THEN <<>> ELSE chars_of(Head(tokens)) \o to_string(Tail(tokens))

\* TryFrom<pii::Email> for UserName: the name is the text before the first '@'.
UserName_try_from(value) ==
    LET parts == split_once(value, "@")
    IN  IF parts = None THEN Err("InvalidEmailError")
        ELSE UserName_new(to_string(parts[1][1]))

\* UserCompanyName::new
UserCompanyName_new(company_name) ==
    LET trimmed == trim(company_name)
        is_empty_or_whitespace == trimmed = <<>>
        is_too_long == graphemes_count(trimmed) > MAX_COMPANY_NAME_LENGTH
        is_all_valid_characters ==
            \A i \in 1..Len(trimmed) :
                is_alphanumeric(trimmed[i]) \/ is_ascii_whitespace(trimmed[i])
                    \/ trimmed[i] = "_"
    IN  IF is_empty_or_whitespace \/ is_too_long \/ ~is_all_valid_characters
        THEN Err("CompanyNameParsingError")
        ELSE Ok(trimmed)

\* str.replace(from, to), for single characters
replace(str, from, to) ==
    [i \in 1..Len(str) |-> IF str[i] = from THEN to ELSE str[i]]

\* MerchantId::new
MerchantId_new(merchant_id) ==
    LET id == replace(to_lowercase(trim(merchant_id)), " ", "_")
        is_empty_or_whitespace == id = <<>>
        is_all_valid_characters ==
            \A i \in 1..Len(id) : is_alphanumeric(id[i]) \/ id[i] = "_"
    IN  IF is_empty_or_whitespace \/ ~is_all_valid_characters
        THEN Err("MerchantIdParsingError")
        ELSE Ok(id)

\* TryFrom<MerchantId> for id_type::MerchantId: the identifier type takes ASCII
\* letters, digits, '_' and '-' only.
id_type_MerchantId_try_from(value) ==
    IF \A i \in 1..Len(value) : is_ascii(value[i])
    THEN Ok(value)
    ELSE Err("MerchantIdParsingError")

\* password::get_temp_password: a generated password that meets the rules
get_temp_password == <<"A", "a", "1", "!">>

RequestShapes ==
    {"SignUpWithMerchantIdRequest", "SignUpRequest", "ConnectAccountRequest",
     "CreateInternalUserRequest", "InviteUserRequest", "UserMerchantCreate"}

\* TryFrom<...> for NewUserOrganization (lines 262-318)
NewUserOrganization_try_from(request) ==
    IF request.shape = "SignUpWithMerchantIdRequest"
    THEN LET company_name == UserCompanyName_new(request.company_name[1])
         IN  IF ~company_name.ok THEN company_name
             ELSE Ok(NewUserOrganization(1, Some(company_name.val[1])))
    ELSE IF request.shape = "UserMerchantCreate"
    THEN Ok(NewUserOrganization(1, Some(request.company_name[1])))
    ELSE Ok(NewUserOrganization(1, None))

NewUserMerchant_skips_merchant_id(request) ==
    LET company_name == UserCompanyName_new(request.company_name[1])
        new_organization == NewUserOrganization_try_from(request)
    IN  IF request.shape \in {"SignUpWithMerchantIdRequest", "UserMerchantCreate"}
        THEN IF ~company_name.ok THEN company_name
             ELSE Ok([company_name |-> Some(company_name.val[1]),
                      merchant_id |-> request.company_name[1],
                      new_organization |-> new_organization.val[1]])
        ELSE Ok([company_name |-> None,
                 merchant_id |-> <<"generated">>,
                 new_organization |-> new_organization.val[1]])

\* TryFrom<...> for NewUserMerchant (lines 465-561)
NewUserMerchant_try_from(request) ==
    LET new_organization == NewUserOrganization_try_from(request)
    IN  IF request.shape = "SignUpWithMerchantIdRequest"
        THEN LET company_name == UserCompanyName_new(request.company_name[1])
                 merchant_id == MerchantId_new(request.company_name[1])
                 id == id_type_MerchantId_try_from(merchant_id.val[1])
             IN  IF ~company_name.ok THEN company_name
                 ELSE IF ~merchant_id.ok THEN merchant_id
                 ELSE IF ~new_organization.ok THEN new_organization
                 ELSE IF ~id.ok THEN id
                 ELSE Ok([company_name |-> Some(company_name.val[1]),
                          merchant_id |-> id.val[1],
                          new_organization |-> new_organization.val[1]])
        ELSE IF request.shape = "UserMerchantCreate"
        THEN LET new_id == MerchantId_new(request.company_name[1])
                 id == id_type_MerchantId_try_from(new_id.val[1])
                 merchant_id ==
                     IF request.production
                     THEN IF ~new_id.ok THEN new_id ELSE id
                     ELSE Ok(<<"unix_timestamp">>)
                 company_name == UserCompanyName_new(request.company_name[1])
             IN  IF ~merchant_id.ok THEN merchant_id
                 ELSE IF ~company_name.ok THEN company_name
                 ELSE Ok([company_name |-> Some(company_name.val[1]),
                          merchant_id |-> merchant_id.val[1],
                          new_organization |-> new_organization.val[1]])
        ELSE Ok([company_name |-> None,
                 merchant_id |->
                     CASE request.shape = "CreateInternalUserRequest" -> <<"internal">>
                       [] request.shape = "InviteUserRequest" -> <<"of_token">>
                       [] OTHER -> <<"unix_timestamp">>,
                 new_organization |-> new_organization.val[1]])

\* The value built at the end of each conversion (lines 725, 745, 764, 786, 803, 827).
NewUser(name, email, password, new_merchant) ==
    [user_id |-> <<"uuid", 1>>,
     name |-> name,
     email |-> email,
     password |-> password,
     new_merchant |-> new_merchant]

\* TryFrom<...> for NewUser (lines 715-835): the steps of each conversion in the
\* order of the code; the first step that fails is the answer.
NewUser_try_from(request, blocked) ==
    LET email == from_pii_email(request.email, blocked)
        new_merchant == NewUserMerchant_try_from(request)
    IN  CASE request.shape = "SignUpWithMerchantIdRequest" ->
                LET name == UserName_new(request.name[1])
                    password == UserPassword_new(request.password[1])
                IN  IF ~email.ok THEN email
                    ELSE IF ~name.ok THEN name
                    ELSE IF ~password.ok THEN password
                    ELSE IF ~new_merchant.ok THEN new_merchant
                    ELSE Ok(NewUser(name.val[1], email.val[1],
                                    Some(Plain(password.val[1])), new_merchant.val[1]))
          [] request.shape = "SignUpRequest" ->
                LET name == UserName_try_from(request.email)
                    password == UserPassword_new(request.password[1])
                IN  IF ~email.ok THEN email
                    ELSE IF ~name.ok THEN name
                    ELSE IF ~password.ok THEN password
                    ELSE IF ~new_merchant.ok THEN new_merchant
                    ELSE Ok(NewUser(name.val[1], email.val[1],
                                    Some(Plain(password.val[1])), new_merchant.val[1]))
          [] request.shape = "ConnectAccountRequest" ->
                LET name == UserName_try_from(request.email)
                IN  IF ~email.ok THEN email
                    ELSE IF ~name.ok THEN name
                    ELSE IF ~new_merchant.ok THEN new_merchant
                    ELSE Ok(NewUser(name.val[1], email.val[1], None, new_merchant.val[1]))
          [] request.shape = "CreateInternalUserRequest" ->
                LET name == UserName_new(request.name[1])
                    password == UserPassword_new(request.password[1])
                IN  IF ~email.ok THEN email
                    ELSE IF ~name.ok THEN name
                    ELSE IF ~password.ok THEN password
                    ELSE IF ~new_merchant.ok THEN new_merchant
                    ELSE Ok(NewUser(name.val[1], email.val[1],
                                    Some(Plain(password.val[1])), new_merchant.val[1]))
          [] request.shape = "UserMerchantCreate" ->
                LET name == UserName_new(request.name[1])
                    password ==
                        IF request.password = None THEN Ok(None)
                        ELSE LET p == new_password_without_validation(request.password[1])
                             IN  IF p.ok THEN Ok(Some(Plain(p.val[1]))) ELSE p
                IN  IF ~new_merchant.ok THEN new_merchant
                    ELSE IF ~name.ok THEN name
                    ELSE IF ~email.ok THEN email
                    ELSE IF ~password.ok THEN password
                    ELSE Ok(NewUser(name.val[1], email.val[1], password.val[1],
                                    new_merchant.val[1]))
          [] request.shape = "InviteUserRequest" ->
                LET name == UserName_new(request.name[1])
                    temp == UserPassword_new(get_temp_password)
                    password == IF ~request.email_feature
                                THEN Some(Plain(temp.val[1])) ELSE None
                IN  IF ~email.ok THEN email
                    ELSE IF ~name.ok THEN name
                    ELSE IF ~temp.ok THEN temp
                    ELSE IF ~new_merchant.ok THEN new_merchant
                    ELSE Ok(NewUser(name.val[1], email.val[1], password,
                                    new_merchant.val[1]))

\* Sample field values: valid ones and ones that fail each check.
SampleNames == {<<"a", "a">>, <<"a", "/">>, <<"tab">>, <<"a", "a", "a", "a">>}
SampleEmails ==
    {<<"alice", "@", "ok.com">>, <<"alice", "@", "blocked.com">>,
     <<"a/b", "@", "ok.com">>, <<"alice">>}
SamplePasswords == {<<"A", "a", "1", "!">>, <<"a", "a", "a", "a">>, <<>>}
SampleCompanyNames ==
    {<<"A", "a">>, <<"a", " ", "a">>, <<"a", "!">>, <<"a", "tab", "a">>,
     <<"e_acute">>, <<"I_dot">>, <<" ">>, <<"a", "a", "a", "a">>}

\* The requests, by shape, with the fields each shape carries; production is
\* the runtime the conversion runs in (env::which() is Env::Production).
Request(shape, email, name, password, company_name, production, email_feature) ==
    [fn |-> "NewUser::try_from", shape |-> shape, email |-> email, name |-> name,
     password |-> password, company_name |-> company_name,
     production |-> production, email_feature |-> email_feature]

NewUserRequests ==
    {Request("SignUpWithMerchantIdRequest", e, Some(n), Some(p), Some(c), env, FALSE) :
        e \in SampleEmails, n \in SampleNames, p \in SamplePasswords,
        c \in SampleCompanyNames, env \in BOOLEAN}
    \cup {Request("SignUpRequest", e, None, Some(p), None, FALSE, FALSE) :
            e \in SampleEmails, p \in SamplePasswords}
    \cup {Request("ConnectAccountRequest", e, None, None, None, FALSE, FALSE) :
            e \in SampleEmails}
    \cup {Request("CreateInternalUserRequest", e, Some(n), Some(p), None, FALSE, FALSE) :
            e \in SampleEmails, n \in SampleNames, p \in SamplePasswords}
    \cup {Request("InviteUserRequest", e, Some(n), None, None, FALSE, f) :
            e \in SampleEmails, n \in SampleNames, f \in BOOLEAN}
    \cup {Request("UserMerchantCreate", e, Some(n), p, Some(c), env, FALSE) :
            e \in SampleEmails, n \in SampleNames,
            p \in {None} \cup {Some(s) : s \in SamplePasswords},
            c \in SampleCompanyNames, env \in BOOLEAN}

\* One of the conversions is applied to the request.
NewUserTryFrom ==
    /\ input.fn = "NewUser::try_from"
    /\ outputs = <<>>
    /\ outputs' = <<NewUser_try_from(input, force(BLOCKED_EMAIL))>>
    /\ BLOCKED_EMAIL' = IF reads_blocked(input.email, TRUE)
                           /\ (input.shape # "UserMerchantCreate"
                               \/ (NewUserMerchant_try_from(input).ok
                                   /\ UserName_new(input.name[1]).ok))
                        THEN Some(force(BLOCKED_EMAIL))
                        ELSE BLOCKED_EMAIL
    /\ UNCHANGED <<input, provVars, roleVars, keyVars, pwdVars, opsVars>>

\* insert_user_in_db is a method of NewUser: it runs on a value a conversion built.
InsertConstructedUser ==
    /\ input.fn = "NewUser::try_from"
    /\ Len(outputs) = 1 /\ outputs[1].ok
    /\ users = {}
    /\ \E hashFault \in BOOLEAN, fault \in BOOLEAN :
        LET value == outputs[1].val[1]
            conv == UserNew_try_from(value, ~hashFault)
            r == insert_user_in_db(value, users, ~hashFault, fault)
        IN  /\ users' = r.table
            /\ last' = [op |-> "insert_user_in_db",
                        arg |-> Some(value),
                        store |-> IF conv.ok
                                  THEN StoreAnswer(db_insert_user(users, conv.val[1], fault).res)
                                  ELSE "not_called",
                        calls |-> IF conv.ok THEN <<"insert_user">> ELSE <<>>,
                        row |-> IF conv.ok THEN conv.val ELSE None,
                        added |-> r.table \ users,
                        res |-> r.res]
    /\ UNCHANGED <<merchants, newUser, pc, created_user, result, trace, deleteRes, faulty,
                   organizations, roleVars, keyVars, pwdVars, valVars>>

\* insert_org_in_db is a method of the NewUserOrganization inside a NewUser.
InsertConstructedOrg ==
    /\ input.fn = "NewUser::try_from"
    /\ Len(outputs) = 1 /\ outputs[1].ok
    /\ organizations = {}
    /\ \E fault \in BOOLEAN :
        LET self == outputs[1].val[1].new_merchant.new_organization
            r == insert_org_in_db(self, organizations, fault)
        IN  /\ organizations' = r.table
            /\ last' = [op |-> "insert_org_in_db",
                        arg |-> Some(self),
                        store |-> StoreAnswer(db_insert_organization(organizations, self,
                                                                     fault).res),
                        calls |-> <<"insert_organization">>,
                        row |-> Some(self),
                        added |-> r.table \ organizations,
                        res |-> r.res]
    /\ UNCHANGED <<provVars, roleVars, keyVars, pwdVars, valVars>>

(* ------------------------------------------------------------------------ *)
(* FieldType (api_models::enums)                                            *)
(* ------------------------------------------------------------------------ *)
\* The longest options list compared.
MaxOptions == 1

\* enum FieldType: the variants without a field ...
UnitVariants ==
    {"UserCardNumber", "UserCardExpiryMonth", "UserCardExpiryYear", "UserCardCvc",
     "UserFullName", "UserEmailAddress", "UserPhoneNumber", "UserPhoneNumberCountryCode",
     "UserCryptoCurrencyNetwork", "UserBillingName", "UserAddressLine1",
     "UserAddressLine2", "UserAddressCity", "UserAddressPincode", "UserAddressState",
     "UserShippingName", "UserShippingAddressLine1", "UserShippingAddressLine2",
     "UserShippingAddressCity", "UserShippingAddressPincode", "UserShippingAddressState",
     "UserBlikCode", "UserBank", "Text", "UserDateOfBirth", "UserVpaId", "UserPixKey",
     "UserCpf", "UserCnpj"}

\* ... and the variants with options: Vec<String>.
OptionsVariants ==
    {"UserCountry", "UserCurrency", "UserAddressCountry", "UserShippingAddressCountry",
     "DropDown", "LanguagePreference"}

OptionLists == UNION {[1..k -> {"US", "ALL"}] : k \in 0..MaxOptions}

FieldType ==
    {[variant |-> v, options |-> None] : v \in UnitVariants}
    \cup {[variant |-> v, options |-> Some(o)] : v \in OptionsVariants, o \in OptionLists}

\* The arms of the match in eq, by what they return: true when the two values
\* are of the variant ...
ArmsTrue ==
    {"UserCardNumber", "UserCardExpiryMonth", "UserCardExpiryYear", "UserCardCvc",
     "UserFullName", "UserEmailAddress", "UserPhoneNumber", "UserPhoneNumberCountryCode",
     "UserCryptoCurrencyNetwork", "UserBillingName", "UserAddressLine1",
     "UserAddressLine2", "UserAddressCity", "UserAddressPincode", "UserAddressState",
     "UserAddressCountry",
     "UserShippingName", "UserShippingAddressLine1", "UserShippingAddressLine2",
     "UserShippingAddressCity", "UserShippingAddressPincode", "UserShippingAddressState",
     "UserShippingAddressCountry",
     "UserBlikCode", "UserBank", "Text", "UserDateOfBirth", "UserVpaId", "UserPixKey",
     "UserCpf", "UserCnpj", "LanguagePreference"}

\* ... or options_self.eq(options_other).
ArmsOptions == {"UserCountry", "UserCurrency", "DropDown"}

\* The equality #[derive(PartialEq)] would give.
FieldType_eq_derived(self, other) ==
    self = other

\* The match without its last arm before the wildcard.
FieldType_eq_without_last_arm(self, other) ==
    IF self.variant # other.variant THEN FALSE
    ELSE IF self.variant \in ArmsOptions THEN self.options = other.options
    ELSE self.variant \in ArmsTrue \ {"LanguagePreference"}

\* impl PartialEq for FieldType: eq
FieldType_eq(self, other) ==
    IF self.variant = other.variant /\ self.variant \in ArmsOptions
    THEN self.options = other.options
    ELSE IF self.variant = other.variant /\ self.variant \in ArmsTrue
    THEN TRUE
    ELSE FALSE

\* Three values are compared with each other.
FieldTypeInputs ==
    {[fn |-> "FieldType::eq", a |-> a, b |-> b, c |-> c] :
        a \in FieldType, b \in FieldType, c \in FieldType}

FieldTypeEq ==
    /\ input.fn = "FieldType::eq"
    /\ outputs = <<>>
    /\ outputs' = <<[aa |-> FieldType_eq(input.a, input.a),
                     ab |-> FieldType_eq(input.a, input.b),
                     ba |-> FieldType_eq(input.b, input.a),
                     bc |-> FieldType_eq(input.b, input.c),
                     ac |-> FieldType_eq(input.a, input.c)]>>
    /\ UNCHANGED <<BLOCKED_EMAIL, input, provVars, roleVars, keyVars, pwdVars, opsVars>>

(* ------------------------------------------------------------------------ *)
(* Specifications                                                           *)
(* ------------------------------------------------------------------------ *)
\* No provisioning request is in flight.
ProvIdle ==
    /\ users = {}
    /\ merchants = {}
    /\ newUser = <<>>
    /\ pc = <<>>
    /\ created_user = <<>>
    /\ result = <<>>
    /\ trace = <<>>
    /\ deleteRes = <<>>
    /\ faulty = TRUE

\* No role request is in flight.
RoleIdle ==
    /\ roleStore = {}
    /\ role = <<>>
    /\ rpc = <<>>
    /\ rop = <<>>
    /\ rcalls = <<>>
    /\ rresult = <<>>

\* No key-store request is in flight.
KeyIdle ==
    /\ keyStore = {}
    /\ keymanager_create = FALSE
    /\ kuser = <<>>
    /\ kpc = <<>>
    /\ kfetch = <<>>
    /\ kkey = <<>>
    /\ key_store = <<>>
    /\ kcalls = <<>>
    /\ kresult = <<>>

\* No credential comparison is made.
PwdIdle ==
    /\ storedUser = PreUser(1)
    /\ cmpLog = <<>>

\* No operation is run on its own.
OpsIdle ==
    /\ organizations = {}
    /\ last = NoOperation

\* No validating constructor is called.
ValIdle ==
    /\ BLOCKED_EMAIL = None
    /\ input = [fn |-> "none", arg |-> None]
    /\ outputs = <<>>

\* Concurrent insert_user_and_merchant_in_db requests.
Init == ProvInit /\ RoleIdle /\ KeyIdle /\ PwdIdle /\ OpsIdle /\ ValIdle

Next ==
    \E p \in Procs :
        \/ CheckUser(p)
        \/ CheckMerchant(p)
        \/ CreateMerchant(p)
        \/ InsertUser(p)
        \/ DeleteMerchant(p)

Spec == Init /\ [][Next]_vars

\* Concurrent role insertions.
InitRole == ProvIdle /\ RoleInit /\ KeyIdle /\ PwdIdle /\ OpsIdle /\ ValIdle

NextRole ==
    \E p \in RoleProcs :
        \/ AddEntity(p)
        \/ InsertRole(p)

SpecRole == InitRole /\ [][NextRole]_vars

\* Concurrent get_or_create_key_store requests.
InitKey == ProvIdle /\ RoleIdle /\ KeyInit /\ PwdIdle /\ OpsIdle /\ ValIdle

NextKey ==
    \E p \in Procs :
        \/ FetchKeyStore(p)
        \/ TransferKey(p)
        \/ EncryptKey(p)
        \/ InsertKeyStore(p)

SpecKey == InitKey /\ [][NextKey]_vars

\* compare_password calls on one stored user.
InitPwd == ProvIdle /\ RoleIdle /\ KeyIdle /\ PwdInit /\ OpsIdle /\ ValIdle

NextPwd == ComparePassword

SpecPwd == InitPwd /\ [][NextPwd]_vars

\* Operations run one after another against the user, organization and key-store
\* tables, which start empty.
InitOps ==
    /\ ProvIdle /\ RoleIdle /\ PwdIdle /\ OpsInit /\ ValIdle
    /\ keyStore = {}
    /\ keymanager_create \in BOOLEAN
    /\ kuser = <<>> /\ kpc = <<>> /\ kfetch = <<>> /\ kkey = <<>>
    /\ key_store = <<>> /\ kcalls = <<>> /\ kresult = <<>>

\* insert_user_in_db and insert_org_in_db calls, one after another.
NextInsert ==
    \/ InsertUserInDb
    \/ InsertOrgInDb

SpecInsert == InitOps /\ [][NextInsert]_vars

\* The operations that write secrets: insert_user_in_db and get_or_create_key_store.
NextRows ==
    \/ InsertUserInDb
    \/ GetOrCreateKeyStore

SpecRows == InitOps /\ [][NextRows]_vars

\* get_or_create_key_store and decrypt_and_get_totp_secret calls, one after another.
NextKeyOps ==
    \/ GetOrCreateKeyStore
    \/ DecryptAndGetTotpSecret

SpecKeyOps == InitOps /\ [][NextKeyOps]_vars

\* insert_in_v1_and_v2 calls, one after another.
NextDualWrite == InsertInV1AndV2

SpecDualWrite == InitOps /\ [][NextDualWrite]_vars

\* Organization-level roles are attached and a user's role is looked up.
NextRoleLookup ==
    \/ InsertOrgLevelUserRoleInDb
    \/ GetPreferredOrActiveUserRoleFromDb

SpecRoleLookup == InitOps /\ [][NextRoleLookup]_vars

\* The stores are idle while a validating constructor is called.
StoresIdle == ProvIdle /\ RoleIdle /\ KeyIdle /\ PwdIdle /\ OpsIdle

\* UserPassword::new and new_password_without_validation, applied to a password.
InitPassword ==
    /\ StoresIdle
    /\ BLOCKED_EMAIL = None
    /\ input \in PasswordInputs
    /\ outputs = <<>>

NextPassword ==
    \/ UserPasswordNew
    \/ UserPasswordNewWithoutValidation

SpecPassword == InitPassword /\ [][NextPassword]_vars

\* UserEmail::new and UserEmail::from_pii_email, called repeatedly on an address.
InitEmail ==
    /\ StoresIdle
    /\ BLOCKED_EMAIL = None
    /\ input \in EmailInputs
    /\ outputs = <<>>

NextEmail ==
    \/ UserEmailNew
    \/ UserEmailFromPiiEmail

SpecEmail == InitEmail /\ [][NextEmail]_vars

\* RoleName::new, applied to a name.
InitRoleName ==
    /\ StoresIdle
    /\ BLOCKED_EMAIL = None
    /\ input \in RoleNameInputs
    /\ outputs = <<>>

NextRoleName == RoleNameNew

SpecRoleName == InitRoleName /\ [][NextRoleName]_vars

\* A request is converted into a NewUser; a NewUser that was built is persisted.
InitNewUser ==
    /\ StoresIdle
    /\ BLOCKED_EMAIL = None
    /\ input \in NewUserRequests
    /\ outputs = <<>>

NextNewUser ==
    \/ NewUserTryFrom
    \/ InsertConstructedUser
    \/ InsertConstructedOrg

SpecNewUser == InitNewUser /\ [][NextNewUser]_vars

\* FieldType values compared with eq.
InitFieldType ==
    /\ StoresIdle
    /\ BLOCKED_EMAIL = None
    /\ input \in FieldTypeInputs
    /\ outputs = <<>>

NextFieldType == FieldTypeEq

SpecFieldType == InitFieldType /\ [][NextFieldType]_vars

(* ------------------------------------------------------------------------ *)
(* Provisioning: derived state used by the properties                       *)
(* ------------------------------------------------------------------------ *)
Done(p) == pc[p] = "done"

Returned(p) == result[p][1]

\* insert_user_in_db ran for p (so merchant creation succeeded before it) and failed.
InsertFailed(p) == created_user[p] # None /\ ~created_user[p][1].ok

InsertFailedWith(p, e) == InsertFailed(p) /\ created_user[p][1].err = e

Called(p, name, arg) ==
    \E i \in 1..Len(trace[p]) : trace[p][i] = Call(name, arg)

RowsAddedBy(p) == {r \in users : r.user_id = newUser[p].user_id}

RowsFor(e) == {r \in users : r.email = e}

MerchantsCreatedBy(p) == {m \in merchants : m.by = p}

RegisteredAtStart(e) == \E r \in users : r.email = e /\ r.user_id[1] = "pre"

MerchantAtStart(id) == [id |-> id, by |-> 0] \in merchants

Winners(e) == {p \in Procs : newUser[p].email = e /\ Done(p) /\ Returned(p).ok}

(* C1: whenever merchant creation succeeded and the user insertion then     *)
(* failed with UserExists, the call has added no user row, and it does not   *)
(* return before admin::merchant_account_delete was called for the merchant  *)
(* id it created (whatever the delete's outcome).                            *)
C1_CompensationOnUserExists ==
    \A p \in Procs :
        InsertFailedWith(p, "UserExists") =>
            /\ RowsAddedBy(p) = {}
            /\ \/ pc[p] = "delete_merchant"
               \/ /\ Done(p)
                  /\ Called(p, "merchant_account_delete", newUser[p].merchant_id)
                  /\ Called(p, "create_merchant_account", newUser[p].merchant_id)

C1_Witness ==
    \E p \in Procs :
        /\ Done(p)
        /\ InsertFailedWith(p, "UserExists")
        /\ Called(p, "merchant_account_delete", newUser[p].merchant_id)
        /\ deleteRes[p] = "failed"

(* C2: when the user insertion fails after merchant creation succeeded, the  *)
(* call returns exactly the insertion's error (UserExists or                 *)
(* InternalServerError) whether the compensating delete succeeded or failed. *)
C2_OriginalErrorReturned ==
    \A p \in Procs :
        (Done(p) /\ InsertFailed(p)) =>
            /\ deleteRes[p] \in {"ok", "failed"}
            /\ result[p] = created_user[p]
            /\ ~Returned(p).ok
            /\ Returned(p).err \in {"UserExists", "InternalServerError"}

C2_Witness ==
    \E p, q \in Procs :
        /\ Done(p) /\ InsertFailedWith(p, "InternalServerError") /\ deleteRes[p] = "failed"
        /\ Done(q) /\ InsertFailedWith(q, "UserExists") /\ deleteRes[q] = "ok"

(* C3 as stated: after an invocation that returned an error, no merchant     *)
(* account created by that invocation remains in the merchant store.         *)
C3_NoOrphanedMerchant ==
    \A p \in Procs :
        (Done(p) /\ ~Returned(p).ok) => MerchantsCreatedBy(p) = {}

(* C3 amended: after an invocation that returned an error, a merchant        *)
(* account created by that invocation remains in the merchant store only    *)
(* when the compensating delete was called and failed.                       *)
C3_OrphanOnlyAfterFailedDelete ==
    \A p \in Procs :
        (Done(p) /\ ~Returned(p).ok /\ MerchantsCreatedBy(p) # {}) =>
            /\ deleteRes[p] = "failed"
            /\ Called(p, "merchant_account_delete", newUser[p].merchant_id)

C3_Witness ==
    \E p \in Procs :
        /\ Done(p) /\ ~Returned(p).ok
        /\ InsertFailed(p)
        /\ deleteRes[p] = "ok"
        /\ MerchantsCreatedBy(p) = {}
        /\ \E q \in Procs : MerchantsCreatedBy(q) # {} /\ deleteRes[q] = "failed"

C8_RaceWinner ==
    \A e \in Emails :
        LET callers == {p \in Procs : newUser[p].email = e}
            racers == {p \in callers : created_user[p] # None}
        IN  ( /\ ~faulty
              /\ ~RegisteredAtStart(e)
              /\ \A p \in callers : Done(p) ) =>
                /\ racers # {} =>
                    /\ Cardinality(Winners(e)) = 1
                    /\ Winners(e) \subseteq racers
                    /\ Cardinality(RowsFor(e)) = 1
                    /\ \A p \in racers \ Winners(e) :
                          Returned(p).err = "UserExists" /\ deleteRes[p] = "ok"
                /\ \A p \in callers \ racers :
                      Returned(p).err \in {"UserExists", "MerchantAccountCreationError",
                                           "InternalServerError"}

CallNames(p) == [i \in 1..Len(trace[p]) |-> trace[p][i].call]

(* C12: a lookup of the existence checks that cannot answer "found" or      *)
(* "not found" ends the call with InternalServerError.  For a row that is   *)
(* in the store throughout, the lookup can only find it or fail: so a call  *)
(* for an email registered from the start makes no call after               *)
(* find_user_by_email and returns UserExists or InternalServerError, and a  *)
(* call that looked up a merchant id present from the start never calls     *)
(* create_merchant_account and returns MerchantAccountCreationError or      *)
(* InternalServerError.                                                      *)
C12_LookupFailureIsInternalError ==
    \A p \in Procs :
        /\ RegisteredAtStart(newUser[p].email) =>
              /\ Len(trace[p]) <= 1
              /\ Done(p) => Returned(p).err \in {"UserExists", "InternalServerError"}
        /\ ( /\ MerchantAtStart(newUser[p].merchant_id)
             /\ Called(p, "get_merchant_key_store", newUser[p].merchant_id) ) =>
              /\ ~Called(p, "create_merchant_account", newUser[p].merchant_id)
              /\ Done(p) =>
                    Returned(p).err \in {"MerchantAccountCreationError", "InternalServerError"}

\* A failed user lookup was taken as "no such user": the call went on to the
\* merchant steps for an email that was registered all along.
C12_Witness ==
    \E p \in Procs :
        /\ RegisteredAtStart(newUser[p].email)
        /\ Called(p, "find_user_by_email", newUser[p].email)
        /\ Called(p, "create_merchant_account", newUser[p].merchant_id)

(* C13: a call for an email that is already registered returns UserExists   *)
(* having made no call but the user lookup; a call for a free email whose    *)
(* merchant id already has a key store returns MerchantAccountCreationError  *)
(* without create_merchant_account and without a user insertion; either way  *)
(* the call added no user row, created no merchant and deleted none.         *)
C13_ExistingUserOrMerchantRejected ==
    \A p \in Procs :
        Done(p) =>
            /\ RegisteredAtStart(newUser[p].email) =>
                  /\ Returned(p) = Err("UserExists")
                  /\ CallNames(p) = <<"find_user_by_email">>
                  /\ RowsAddedBy(p) = {}
                  /\ MerchantsCreatedBy(p) = {}
            /\ ( /\ RowsFor(newUser[p].email) = {}
                 /\ MerchantAtStart(newUser[p].merchant_id) ) =>
                  /\ Returned(p) = Err("MerchantAccountCreationError")
                  /\ CallNames(p) = <<"find_user_by_email", "get_merchant_key_store">>
                  /\ RowsAddedBy(p) = {}
                  /\ MerchantsCreatedBy(p) = {}

\* An already registered email, and yet the call created a merchant account and
\* attempted the user insertion.
C13_Witness ==
    \E p \in Procs :
        /\ Done(p)
        /\ RegisteredAtStart(newUser[p].email)
        /\ Called(p, "create_merchant_account", newUser[p].merchant_id)
        /\ Called(p, "insert_user", newUser[p].email)
        /\ Returned(p).err = "UserExists"

(* ------------------------------------------------------------------------ *)
(* Role builder: derived state used by the properties                       *)
(* ------------------------------------------------------------------------ *)
RoleDone(p) == rpc[p] = "done"

RoleReturned(p) == rresult[p][1]

LevelOf(p) == role[p].entity.level

\* The rows of the table that request p's insert_user_role call wrote.
RowsWrittenBy(p) == {r \in roleStore : r.id[1] = p}

VersionsWrittenBy(p) == {r.version : r \in RowsWrittenBy(p)}

DualWrite(p) == rop[p] = "insert_in_v1_and_v2"

(* C4: after NewUserRole<MerchantLevel>::insert_in_v1_and_v2 returned        *)
(* successfully, the role store holds a V1 row and a V2 row for the role's   *)
(* (user_id, role_id), and the row returned is that V1 row.                  *)
C4_MerchantDualWrite ==
    \A p \in RoleProcs :
        ( /\ RoleDone(p)
          /\ LevelOf(p) = "MerchantLevel"
          /\ DualWrite(p)
          /\ RoleReturned(p).ok ) =>
            \E r1, r2 \in roleStore :
                /\ r1.version = "V1" /\ r2.version = "V2"
                /\ r1.user_id = role[p].user_id /\ r1.role_id = role[p].role_id
                /\ r2.user_id = role[p].user_id /\ r2.role_id = role[p].role_id
                /\ r1.id[1] = p /\ r2.id[1] = p
                /\ RoleReturned(p).val[1] = r1

C4_Witness ==
    \E p \in RoleProcs :
        /\ RoleDone(p)
        /\ LevelOf(p) = "MerchantLevel"
        /\ DualWrite(p)
        /\ RoleReturned(p).ok
        /\ RoleReturned(p).val[1].version = "V1"
        /\ VersionsWrittenBy(p) = {"V1", "V2"}

(* C5: every insert_in_v1_and_v2 (Organization, Merchant, Internal scope)    *)
(* makes exactly one insert_user_role call, with a V1AndV2 payload carrying  *)
(* the V1 and the V2 row of the same role; so in every reachable state, with *)
(* other requests interleaved and with the store failing, the rows a         *)
(* dual-write put in the table are both versions of the pair or none.        *)
C5_DualWriteAtomic ==
    \A p \in RoleProcs :
        /\ DualWrite(p) =>
            /\ LevelOf(p) \in {"OrganizationLevel", "MerchantLevel", "InternalLevel"}
            /\ Len(rcalls[p]) = 1
            /\ rcalls[p][1].kind = "V1AndV2"
            /\ Len(rcalls[p][1].rows) = 2
            /\ rcalls[p][1].rows[1].version = "V1"
            /\ rcalls[p][1].rows[2].version = "V2"
            /\ rcalls[p][1].rows[1].user_id = rcalls[p][1].rows[2].user_id
            /\ rcalls[p][1].rows[1].role_id = rcalls[p][1].rows[2].role_id
            /\ VersionsWrittenBy(p) \in {{}, {"V1", "V2"}}
        /\ (~RoleDone(p)) => RowsWrittenBy(p) = {}

C5_Witness ==
    \E p, q \in RoleProcs :
        /\ DualWrite(p) /\ LevelOf(p) = "InternalLevel"
        /\ VersionsWrittenBy(p) = {"V1", "V2"}
        /\ DualWrite(q) /\ LevelOf(q) = "OrganizationLevel"
        /\ ~RoleReturned(q).ok
        /\ VersionsWrittenBy(q) = {}

\* The persistence operations the claim lists for each state of the builder.
C9_Table(level) ==
    CASE level = "NoLevel" -> {}
      [] level = "OrganizationLevel" -> {"insert_in_v1", "insert_in_v2", "insert_in_v1_and_v2"}
      [] level = "MerchantLevel" -> {"insert_in_v1_and_v2"}
      [] level = "InternalLevel" -> {"insert_in_v1_and_v2"}
      [] level = "ProfileLevel" -> {"insert_in_v2"}

\* The state part of C9: the operations used and offered in each scope, and the
\* rows that can come of them.
C9_BuilderStates ==
    \A p \in RoleProcs :
        /\ rpc[p] = "no_level" <=> LevelOf(p) = "NoLevel"
        /\ rop[p] # "none" => rop[p] \in C9_Table(LevelOf(p))
        /\ rpc[p] = "scoped" => InsertOps(LevelOf(p)) = C9_Table(LevelOf(p))
        /\ LevelOf(p) = "NoLevel" => RowsWrittenBy(p) = {} /\ rcalls[p] = <<>>
        /\ LevelOf(p) = "ProfileLevel" => "V1" \notin VersionsWrittenBy(p)
        /\ LevelOf(p) \in {"MerchantLevel", "InternalLevel"} =>
                VersionsWrittenBy(p) \in {{}, {"V1", "V2"}}

\* The transition part of C9: a request's scope changes only by add_entity from
\* NoLevel, and never again once a scope is chosen.
C9_OnlyTransition ==
    [][\A p \in RoleProcs :
          LevelOf(p)' # LevelOf(p) =>
              /\ LevelOf(p) = "NoLevel"
              /\ rpc[p] = "no_level"
              /\ rpc'[p] = "scoped"
              /\ roleStore' = roleStore]_vars

(* C9: the builder's only transition is NoLevel --add_entity--> a scope; the *)
(* operation a request persisted with is one the claim lists for its scope,  *)
(* and the operations offered in a scope are exactly the listed ones; no row *)
(* is ever written from NoLevel, no V1 row for a Profile-scoped role, and a  *)
(* Merchant- or Internal-scoped role is never written in one version only.   *)
C9_RoleStateMachine == []C9_BuilderStates /\ C9_OnlyTransition

C9_Witness ==
    \E p, q \in RoleProcs :
        /\ LevelOf(p) = "ProfileLevel" /\ RoleDone(p) /\ VersionsWrittenBy(p) = {"V2"}
        /\ LevelOf(q) = "OrganizationLevel" /\ RoleDone(q) /\ rop[q] = "insert_in_v1"
        /\ VersionsWrittenBy(q) = {"V1"}

(* ------------------------------------------------------------------------ *)
(* Key store: derived state used by the properties                          *)
(* ------------------------------------------------------------------------ *)
KeyDone(p) == kpc[p] = "done"

KeyReturned(p) == kresult[p][1]

KeyRowsFor(u) == {r \in keyStore : r.user_id = u}

KeyCalled(p, name) == \E i \in 1..Len(kcalls[p]) : kcalls[p][i] = name

(* C6: when get_or_create_key_store runs concurrently for one user, in every *)
(* interleaving the key-store table holds at most one row for that user, and *)
(* two calls never both return successfully with different keys: a call that *)
(* lost the uniqueness constraint returns InternalServerError, and a call    *)
(* that returns successfully returns the row the table holds.                *)
C6_OneKeyStorePerUser ==
    /\ \A u \in KeyUsers : Cardinality(KeyRowsFor(u)) <= 1
    /\ \A p \in Procs :
        (KeyDone(p) /\ KeyReturned(p).ok) =>
            /\ KeyReturned(p).val[1] \in keyStore
            /\ KeyReturned(p).val[1].user_id = kuser[p]
    /\ \A p, q \in Procs :
        ( /\ kuser[p] = kuser[q]
          /\ KeyDone(p) /\ KeyDone(q)
          /\ KeyReturned(p).ok /\ KeyReturned(q).ok ) =>
            KeyReturned(p).val[1].key = KeyReturned(q).val[1].key

C6_Witness ==
    \E p, q \in Procs :
        /\ p # q
        /\ kuser[p] = kuser[q]
        /\ kfetch[p] = "not_found" /\ kfetch[q] = "not_found"
        /\ kkey[p] # None /\ kkey[q] # None /\ kkey[p] # kkey[q]
        /\ KeyCalled(p, "insert_user_key_store") /\ KeyCalled(q, "insert_user_key_store")
        /\ KeyDone(p) /\ KeyDone(q)
        /\ KeyReturned(p).ok
        /\ ~KeyReturned(q).ok /\ KeyReturned(q).err = "InternalServerError"
        /\ KeyRowsFor(kuser[p]) = {KeyReturned(p).val[1]}

(* C7: if the key-store fetch fails with an error other than not-found, the  *)
(* call returns InternalServerError and has generated no key, made no        *)
(* transfer to the key manager and no insert_user_key_store; a key is        *)
(* generated only when the fetch outcome is exactly not-found.               *)
C7_FetchErrorCreatesNothing ==
    \A p \in Procs :
        /\ kfetch[p] = "db_error" =>
            /\ KeyDone(p)
            /\ ~KeyReturned(p).ok
            /\ KeyReturned(p).err = "InternalServerError"
            /\ kcalls[p] = <<>>
            /\ kkey[p] = None
        /\ kcalls[p] # <<>> => kfetch[p] = "not_found"
        /\ kkey[p] # None => kfetch[p] = "not_found"

C7_Witness ==
    \E p \in Procs :
        /\ kfetch[p] = "db_error"
        /\ KeyDone(p)
        /\ KeyReturned(p).err = "InternalServerError"
        /\ KeyRowsFor(kuser[p]) # {}

(* ------------------------------------------------------------------------ *)
(* Credential comparison                                                    *)
(* ------------------------------------------------------------------------ *)
(* C10: for a stored user whose password is absent, compare_password returns *)
(* InvalidCredentials for every candidate and never Ok; it returns Ok only   *)
(* when a password hash is stored and the verification answered true for the *)
(* candidate.                                                                *)
C10_NoPasswordNeverMatches ==
    \A i \in 1..Len(cmpLog) :
        /\ storedUser.password = None =>
            /\ ~cmpLog[i].result.ok
            /\ cmpLog[i].result.err = "InvalidCredentials"
        /\ cmpLog[i].result.ok =>
            /\ storedUser.password # None
            /\ cmpLog[i].verified # None
            /\ cmpLog[i].verified[1].ok
            /\ cmpLog[i].verified[1].val[1] = TRUE
            /\ storedUser.password[1] = PHash(cmpLog[i].candidate.of)

C10_Witness ==
    /\ storedUser \in
          {UserNew_try_from(NewUser_from_ConnectAccountRequest(<<"uuid", 1>>, e, 1), TRUE).val[1] :
              e \in Emails}
    /\ Len(cmpLog) = MaxCompares
    /\ cmpLog[1].candidate # cmpLog[2].candidate
    /\ \A i \in 1..Len(cmpLog) : cmpLog[i].result.err = "InvalidCredentials"

(* ------------------------------------------------------------------------ *)
(* Operations run one after another: properties                             *)
(* ------------------------------------------------------------------------ *)
(* C11: insert_user_in_db returns UserExists exactly when insert_user        *)
(* reported a uniqueness violation, and InternalServerError for every other  *)
(* failure the store reported; insert_org_in_db returns                      *)
(* DuplicateOrganizationId exactly when insert_organization reported a       *)
(* uniqueness violation, and InternalServerError for every other failure;    *)
(* a call that returned an error added no row.                               *)
C11_InsertErrorsClassified ==
    /\ last.op = "insert_user_in_db" =>
          /\ last.res = Err("UserExists") <=> last.store = "unique_violation"
          /\ last.store \notin {"ok", "unique_violation", "not_called"} =>
                last.res = Err("InternalServerError")
          /\ last.res.ok <=> last.store = "ok"
          /\ ~last.res.ok => last.added = {}
    /\ last.op = "insert_org_in_db" =>
          /\ last.res = Err("DuplicateOrganizationId") <=> last.store = "unique_violation"
          /\ last.store \notin {"ok", "unique_violation"} =>
                last.res = Err("InternalServerError")
          /\ last.res.ok <=> last.store = "ok"
          /\ ~last.res.ok => last.added = {}

C11_Witness ==
    /\ last.op = "insert_user_in_db"
    /\ last.store = "unique_violation"
    /\ last.res = Err("UserExists")
    /\ \E r \in organizations : TRUE
    /\ last.added = {}

(* C15: the row insert_user_in_db builds of a NewUser has no password when   *)
(* the NewUser has none, and otherwise the password hash of the supplied     *)
(* password, never the supplied password; it has is_verified = false,        *)
(* totp_status = NotSet, no TOTP secret, no recovery codes, and              *)
(* last_password_modified_at exactly when it has a password.  Every row      *)
(* get_or_create_key_store inserts holds the generated key encrypted under   *)
(* the master key.                                                            *)
C15_UserRowShape(value, row) ==
    /\ value.password = None => row.password = None
    /\ value.password # None =>
          /\ row.password = Some(generate_password_hash(value.password[1], TRUE).val[1])
          /\ row.password # value.password
          /\ row.password[1].kind # "plain"
    /\ row.is_verified = FALSE
    /\ row.totp_status = "NotSet"
    /\ row.totp_secret = None
    /\ row.totp_recovery_codes = None
    /\ row.last_password_modified_at # None <=> row.password # None

C15_NoPlaintextSecrets ==
    /\ ( last.op = "insert_user_in_db" /\ last.row # None ) =>
          /\ C15_UserRowShape(last.arg[1], last.row[1])
          /\ last.added \subseteq {last.row[1]}
    /\ \A r \in users : r.password = None \/ r.password[1].kind = "argon2"
    /\ last.op = "get_or_create_key_store" =>
          \A r \in last.added :
              /\ r.key.kind = "encrypted" /\ r.key.under = "master_key"
              /\ \E key \in RawKeys : r.key = Encrypted(key)
    /\ \A r \in keyStore : r.key.kind = "encrypted" /\ r.key.under = "master_key"

C15_Witness ==
    /\ last.op = "insert_user_in_db"
    /\ last.arg[1].password # None
    /\ last.res.ok
    /\ last.row[1] \in users
    /\ \E r \in keyStore : r.created_at = "now"

(* C16 as stated: when a key store exists for the user the call returns     *)
(* that row, generates, transfers and inserts nothing and leaves the table   *)
(* unchanged; after a series of calls for a user there is exactly one row    *)
(* for that user.                                                             *)
C16_ExactlyOneRowAfterCalls ==
    last.op = "get_or_create_key_store" =>
        LET user_id == last.arg[1]
            before == {r \in keyStore : r.user_id = user_id} \ last.added
        IN  /\ before # {} =>
                  /\ last.res.ok /\ last.res.val[1] \in before
                  /\ last.added = {} /\ last.calls = <<>>
            /\ Cardinality({r \in keyStore : r.user_id = user_id}) = 1

C16_Returns ==
    /\ \A u \in KeyUsers : Cardinality({r \in keyStore : r.user_id = u}) <= 1
    /\ last.op = "get_or_create_key_store" =>
          /\ last.store = "found" =>
                /\ last.res.ok /\ last.res.val[1].user_id = last.arg[1]
                /\ last.added = {} /\ last.calls = <<>>
          /\ last.res.ok => {r \in keyStore : r.user_id = last.arg[1]} = {last.res.val[1]}
          /\ ~last.res.ok => last.added = {}

C16_RowsNeverChange == [][\A r \in keyStore : r \in keyStore']_vars

(* C16 amended: when the fetch finds a key store for the user, the call     *)
(* returns that row, generates, transfers and inserts nothing and leaves the *)
(* table unchanged.  After any series of calls, one after another, there is  *)
(* at most one row per user; a successful call returns the one row the user  *)
(* has, so once a call has succeeded there is exactly one; and no row is     *)
(* ever removed or changed, so every successful call returned the same row.  *)
C16_KeyStoreLazyImmutable == []C16_Returns /\ C16_RowsNeverChange

\* A later call of the series returns the row an earlier call created.
C16_Witness ==
    /\ last.op = "get_or_create_key_store"
    /\ last.store = "found"
    /\ last.res.ok
    /\ last.res.val[1].created_at = "now"
    /\ last.res.val[1] \in keyStore

(* C17: decrypt_and_get_totp_secret returns Ok(None) without a key-store     *)
(* fetch when the user has no TOTP secret; when a secret is stored, it       *)
(* returns the decrypted secret, which it can only under the key of the      *)
(* user's key store, or InternalServerError: a failed fetch or decryption    *)
(* is never Ok(None).                                                         *)
C17_DecryptFailureIsInternalError ==
    last.op = "decrypt_and_get_totp_secret" =>
        LET self == last.arg[1]
        IN  /\ self.totp_secret = None =>
                  last.res = Ok(None) /\ last.calls = <<>>
            /\ self.totp_secret # None =>
                  /\ last.res # Ok(None)
                  /\ last.calls # <<>>
                  /\ last.store # "found" => last.res = Err("InternalServerError")
                  /\ ~last.res.ok => last.res = Err("InternalServerError")
                  /\ last.res.ok =>
                        /\ last.res = Ok(Some(self.totp_secret[1].of))
                        /\ \E r \in keyStore :
                              /\ r.user_id = self.user_id
                              /\ r.key = Encrypted(self.totp_secret[1].under)

\* The key store was fetched, the decryption under its key failed.
C17_Witness ==
    /\ last.op = "decrypt_and_get_totp_secret"
    /\ last.arg[1].totp_secret # None
    /\ last.store = "found"
    /\ Len(last.calls) = 2
    /\ last.res = Err("InternalServerError")
    /\ \E r \in keyStore :
          r.user_id = last.arg[1].user_id /\ r.key # Encrypted(last.arg[1].totp_secret[1].under)

(* ------------------------------------------------------------------------ *)
(* Validated value objects: properties                                      *)
(* ------------------------------------------------------------------------ *)
Output == outputs[1]

Has(str, P(_)) == \E i \in 1..Len(str) : P(str[i])

is_decimal_digit(c) == c = "1"

C18_NotAlphanumeric(c) == ~is_alphanumeric(c)

C18_LengthAndWhitespace(p) ==
    /\ ~Has(p, is_whitespace)
    /\ graphemes_count(p) >= MIN_PASSWORD_LENGTH
    /\ graphemes_count(p) <= MAX_PASSWORD_LENGTH

C18_Unchecked ==
    ( input.fn = "UserPassword::new_password_without_validation" /\ outputs # <<>> ) =>
        /\ Output.ok <=> input.arg # <<>>
        /\ Output.ok => Output = Ok(input.arg)
        /\ ~Output.ok => Output = Err("PasswordParsingError")

C19_Domain(e) ==
    LET at == {i \in 1..Len(e) : e[i] = "@"}
        last_at == CHOOSE i \in at : \A j \in at : j <= i
    IN  IF at = {} THEN None ELSE Some(SubSeq(e, last_at + 1, Len(e)))

C19_BlockedDomains == {trim(line) : line \in blocker_emails_txt}

C19_Rejected ==
    input.fn \in {"UserEmail::new", "UserEmail::from_pii_email"} =>
        \A i \in 1..Len(outputs) :
            /\ ( /\ C19_Domain(input.arg) # None
                 /\ C19_Domain(input.arg)[1] \in C19_BlockedDomains ) => ~outputs[i].ok
            /\ outputs[i] = outputs[1]

C19_LoadedOnce ==
    [][BLOCKED_EMAIL # None => BLOCKED_EMAIL' = BLOCKED_EMAIL]_vars

(* C19: UserEmail::new and UserEmail::from_pii_email fail on every address   *)
(* whose domain is in the blocked set, whatever the local part and however   *)
(* valid the address is otherwise; once loaded, the blocked set never        *)
(* changes, and repeated calls on an address return the same outcome.        *)
C19_BlockedDomainRejected == []C19_Rejected /\ C19_LoadedOnce

C19_Witness ==
    /\ input.fn = "UserEmail::new"
    /\ Len(outputs) = 2
    /\ validate_email(input.arg)
    /\ input.arg[1] = "a/b"
    /\ outputs[2] = Err("InvalidEmailError")
    /\ BLOCKED_EMAIL = Some(C19_BlockedDomains)

(* C20: when RoleName::new(n) succeeds its value is lowercase(n), and        *)
(* RoleName::new(lowercase(n)) succeeds with the same value; RoleName::new   *)
(* returns RoleNameParsingError for every name that is empty after           *)
(* trimming, has more than MAX_ROLE_NAME_LENGTH graphemes, or contains a     *)
(* space.                                                                     *)
C20_RoleNameIdempotentUnderCasing ==
    ( input.fn = "RoleName::new" /\ outputs # <<>> ) =>
        LET n == input.arg
        IN  /\ Output.ok =>
                  /\ Output.val[1] = to_lowercase(n)
                  /\ RoleName_new(to_lowercase(n)) = Output
                  /\ ~Has(Output.val[1], is_uppercase)
            /\ ( \/ trim(n) = <<>>
                 \/ graphemes_count(n) > MAX_ROLE_NAME_LENGTH
                 \/ \E i \in 1..Len(n) : n[i] = " " ) =>
                  Output = Err("RoleNameParsingError")

\* A name with uppercase letters, one of which grows when lowercased.
C20_Witness ==
    /\ input.fn = "RoleName::new"
    /\ outputs # <<>>
    /\ Output.ok
    /\ \E i, j \in 1..Len(input.arg) : input.arg[i] = "I_dot" /\ input.arg[j] = "A"
    /\ Len(Output.val[1]) > Len(input.arg)

(* ------------------------------------------------------------------------ *)
(* NewUser construction                                                     *)
(* ------------------------------------------------------------------------ *)
C14_Errors(res) == IF res.ok THEN {} ELSE {res.err}

\* The validation errors of the fields a request carries, field by field.
C14_FieldErrors(r) ==
    LET email == C14_Errors(from_pii_email(r.email, load_blocked_emails))
        name == IF r.name # None
                THEN C14_Errors(UserName_new(r.name[1]))
                ELSE C14_Errors(UserName_try_from(r.email))
        password ==
            CASE r.shape \in {"SignUpWithMerchantIdRequest", "SignUpRequest",
                              "CreateInternalUserRequest"} ->
                    C14_Errors(UserPassword_new(r.password[1]))
              [] r.shape = "UserMerchantCreate" /\ r.password # None ->
                    C14_Errors(new_password_without_validation(r.password[1]))
              [] r.shape = "InviteUserRequest" ->
                    C14_Errors(UserPassword_new(get_temp_password))
              [] OTHER -> {}
        company_name == IF r.company_name # None
                        THEN C14_Errors(UserCompanyName_new(r.company_name[1]))
                        ELSE {}
        merchant_id ==
            IF r.shape = "SignUpWithMerchantIdRequest"
               \/ (r.shape = "UserMerchantCreate" /\ r.production)
            THEN LET id == MerchantId_new(r.company_name[1])
                 IN  IF id.ok THEN C14_Errors(id_type_MerchantId_try_from(id.val[1]))
                     ELSE C14_Errors(id)
            ELSE {}
    IN  email \cup name \cup password \cup company_name \cup merchant_id

\* C14: for each of the six request shapes, when the validation of a field of
\* the request fails, the conversion into NewUser returns the error of a failed
\* validation and no store was written for the request; a NewUser value, and so
\* a row written from it, exists only when every field validated.
C14_ValidationBeforePersistence ==
    input.fn = "NewUser::try_from" =>
        /\ outputs = <<>> =>
                users = {} /\ organizations = {} /\ merchants = {} /\ last = NoOperation
        /\ outputs # <<>> =>
            LET out == outputs[1]
                failed == C14_FieldErrors(input)
            IN  /\ out.ok <=> failed = {}
                /\ ~out.ok => out.err \in failed
                /\ ~out.ok =>
                        /\ users = {} /\ organizations = {} /\ merchants = {}
                        /\ last = NoOperation
                /\ (users # {} \/ organizations # {} \/ last # NoOperation) =>
                        out.ok /\ failed = {}

\* A sign-up with merchant id whose company name is a valid company name and no
\* valid merchant id was refused, with every other field valid.
C14_Witness ==
    /\ input.fn = "NewUser::try_from"
    /\ input.shape = "SignUpWithMerchantIdRequest"
    /\ outputs # <<>>
    /\ ~outputs[1].ok
    /\ outputs[1].err = "MerchantIdParsingError"
    /\ UserCompanyName_new(input.company_name[1]).ok
    /\ users = {} /\ organizations = {}

(* ------------------------------------------------------------------------ *)
(* FieldType equality                                                       *)
(* ------------------------------------------------------------------------ *)
C21_Compared == input.fn = "FieldType::eq" /\ outputs # <<>>

\* C21: two UserAddressCountry values are equal whatever their options are, and
\* a UserAddressCountry never equals a UserShippingAddressCountry, in either
\* order, whatever the options are.
C21_AddressCountryIgnoresOptions ==
    C21_Compared =>
        /\ (input.a.variant = "UserAddressCountry"
                /\ input.b.variant = "UserAddressCountry") => outputs[1].ab
        /\ (input.a.variant = "UserAddressCountry"
                /\ input.b.variant = "UserShippingAddressCountry") =>
                    ~outputs[1].ab /\ ~outputs[1].ba

\* The comparison of the unit test: options ["US"] against options ["ALL"].
C21_Witness ==
    /\ C21_Compared
    /\ input.a = [variant |-> "UserAddressCountry", options |-> Some(<<"US">>)]
    /\ input.b = [variant |-> "UserAddressCountry", options |-> Some(<<"ALL">>)]
    /\ outputs[1].ab

\* What the claim says a == b is.
C28_Equal(a, b) ==
    /\ a.variant = b.variant
    /\ a.variant \in {"UserCountry", "UserCurrency", "DropDown"} => a.options = b.options

\* C28: eq is reflexive, symmetric and transitive, and a == b holds exactly
\* when a and b are of the same variant and, for UserCountry, UserCurrency and
\* DropDown, carry equal options.
C28_FieldTypeEqEquivalence ==
    C21_Compared =>
        LET out == outputs[1]
        IN  /\ out.aa
            /\ out.ab <=> out.ba
            /\ (out.ab /\ out.bc) => out.ac
            /\ out.ab <=> C28_Equal(input.a, input.b)
            /\ out.bc <=> C28_Equal(input.b, input.c)
            /\ out.ac <=> C28_Equal(input.a, input.c)

\* Three DropDown values with the same options, and one compared with a
\* DropDown of other options.
C28_Witness ==
    /\ C21_Compared
    /\ input.a = [variant |-> "DropDown", options |-> Some(<<"US">>)]
    /\ input.b = [variant |-> "DropDown", options |-> Some(<<"US">>)]
    /\ input.c = [variant |-> "DropDown", options |-> Some(<<"ALL">>)]
    /\ outputs[1].ab /\ ~outputs[1].bc /\ ~outputs[1].ac

(* ------------------------------------------------------------------------ *)
(* Merchant id of a new merchant                                            *)
(* ------------------------------------------------------------------------ *)
\* The company name trimmed, lowercased, its spaces replaced by underscores.
C22_Normalized(company_name) ==
    LET lowered == to_lowercase(trim(company_name))
    IN  [i \in 1..Len(lowered) |-> IF lowered[i] = " " THEN "_" ELSE lowered[i]]

C22_MerchantBuilt ==
    /\ input.fn = "NewUser::try_from"
    /\ input.company_name # None
    /\ outputs # <<>>
    /\ outputs[1].ok

\* C22: a merchant built from a company name has the normalized company name
\* as its id in a production runtime, and a time-derived id in any other runtime.
C22_MerchantIdResolution ==
    C22_MerchantBuilt =>
        LET merchant_id == outputs[1].val[1].new_merchant.merchant_id
        IN  IF input.production
            THEN merchant_id = C22_Normalized(input.company_name[1])
            ELSE merchant_id = <<"unix_timestamp">>

\* Outside production, a sign-up with merchant id built a merchant whose id is
\* the normalized company name.
C22_Witness ==
    /\ C22_MerchantBuilt
    /\ input.shape = "SignUpWithMerchantIdRequest"
    /\ ~input.production
    /\ input.company_name[1] = <<"a", " ", "a">>
    /\ outputs[1].val[1].new_merchant.merchant_id = <<"a", "_", "a">>

(* ------------------------------------------------------------------------ *)
(* Order of the steps and the compensating delete                           *)
(* ------------------------------------------------------------------------ *)
C23_Rank(name) ==
    CASE name = "find_user_by_email" -> 1
      [] name = "get_merchant_key_store" -> 2
      [] name = "create_merchant_account" -> 3
      [] name = "insert_user" -> 4
      [] name = "merchant_account_delete" -> 5

C23_Called(p, name) == \E i \in 1..Len(trace[p]) : trace[p][i].call = name

\* The calls of one invocation come in the order of the steps, none twice; a
\* step is reached only through the steps before it.
C23_InOrder(p) ==
    /\ \A i, j \in 1..Len(trace[p]) :
            i < j => C23_Rank(trace[p][i].call) < C23_Rank(trace[p][j].call)
    /\ C23_Called(p, "get_merchant_key_store") => C23_Called(p, "find_user_by_email")
    /\ C23_Called(p, "create_merchant_account") => C23_Called(p, "get_merchant_key_store")
    /\ C23_Called(p, "insert_user") => C23_Called(p, "create_merchant_account")
    /\ created_user[p] # None => C23_Called(p, "create_merchant_account")
    /\ C23_Called(p, "merchant_account_delete") => created_user[p] # None

\* The delete was called exactly when the merchant was created and the user
\* insertion failed after it, and then for the merchant id of the invocation.
C23_DeleteWhenDue(p) ==
    /\ pc[p] = "done" =>
            (C23_Called(p, "merchant_account_delete")
                <=> (created_user[p] # None /\ ~created_user[p][1].ok))
    /\ C23_Called(p, "merchant_account_delete") =>
            /\ pc[p] = "done"
            /\ ~result[p][1].ok
    /\ \A i \in 1..Len(trace[p]) :
            trace[p][i].call = "merchant_account_delete" =>
                trace[p][i].arg = newUser[p].merchant_id
    /\ (result[p] # None /\ result[p][1].ok) =>
            \E m \in merchants : m.id = newUser[p].merchant_id /\ m.by = p

C23_Steps == \A p \in Procs : C23_InOrder(p) /\ C23_DeleteWhenDue(p)

\* A merchant account leaves the store only through the delete of the
\* invocation that created it, after that invocation's user insertion failed.
C23_OnlyOwnMerchantDeleted ==
    [][\A m \in merchants \ merchants' :
            /\ m.by \in Procs
            /\ m.id = newUser[m.by].merchant_id
            /\ pc[m.by] = "delete_merchant" /\ pc'[m.by] = "done"
            /\ ~created_user[m.by][1].ok]_vars

\* C23: within one invocation the steps run in the order user check, merchant
\* check, merchant creation, user insertion; merchant_account_delete is called
\* if and only if the merchant creation succeeded and the user insertion then
\* failed, at most once, for the merchant id this invocation created, so that
\* no merchant that existed before the call is deleted by it.
C23_StepOrderAndCompensation == []C23_Steps /\ C23_OnlyOwnMerchantDeleted

\* An invocation went through all four steps, its user insertion failed, and
\* its delete removed the merchant it had created while a merchant that
\* existed before is still there.
C23_Witness ==
    \E p \in Procs :
        /\ pc[p] = "done"
        /\ Len(trace[p]) = 5
        /\ deleteRes[p] = "ok"
        /\ \A m \in merchants : m.by # p
        /\ \E m \in merchants : m.by = 0

(* ------------------------------------------------------------------------ *)
(* The rows the insertion operations build                                  *)
(* ------------------------------------------------------------------------ *)
\* The rows request p handed to insert_user_role.
C24_RowsBuilt(p) ==
    UNION {{rcalls[p][i].rows[k] : k \in 1..Len(rcalls[p][i].rows)} :
                i \in 1..Len(rcalls[p])}

\* The (entity_id, entity_type, merchant_id, profile_id) of a V2 row, by scope.
C24_Expected(entity) ==
    CASE entity.level = "OrganizationLevel" ->
            [entity_id |-> entity.org_id[1].repr, entity_type |-> "Organization",
             merchant_id |-> None, profile_id |-> None]
      [] entity.level = "MerchantLevel" ->
            [entity_id |-> entity.merchant_id[1].repr, entity_type |-> "Merchant",
             merchant_id |-> entity.merchant_id, profile_id |-> None]
      [] entity.level = "InternalLevel" ->
            [entity_id |-> INTERNAL_USER_MERCHANT_ID, entity_type |-> "Internal",
             merchant_id |-> Some(MerchantId(INTERNAL_USER_MERCHANT_ID)),
             profile_id |-> None]
      [] entity.level = "ProfileLevel" ->
            [entity_id |-> entity.profile_id[1].repr, entity_type |-> "Profile",
             merchant_id |-> entity.merchant_id, profile_id |-> entity.profile_id]

\* C24: every V2 row an insertion operation builds carries version V2, the
\* organization id of the scope, and the entity id and entity type of the
\* scope: (org id, Organization) without merchant and profile id, (merchant
\* id, Merchant) with the merchant id and no profile id, (sentinel merchant
\* id, Internal) with the sentinel merchant id, (profile id, Profile) with the
\* merchant id and the profile id.
C24_V2RowShape ==
    \A p \in RoleProcs :
        \A row \in C24_RowsBuilt(p) :
            row.version = "V2" =>
                LET expected == C24_Expected(role[p].entity)
                IN  /\ row.org_id = role[p].entity.org_id
                    /\ row.org_id # None
                    /\ row.entity_id = Some(expected.entity_id)
                    /\ row.entity_type = Some(expected.entity_type)
                    /\ row.merchant_id = expected.merchant_id
                    /\ row.profile_id = expected.profile_id

\* V2 rows of a Merchant-scoped and of an Internal-scoped role were built.
C24_Witness ==
    \E p, q \in RoleProcs :
        /\ role[p].entity.level = "MerchantLevel"
        /\ role[q].entity.level = "InternalLevel"
        /\ \E row \in C24_RowsBuilt(p) :
                row.version = "V2" /\ row.entity_type = Some("Merchant")
        /\ \E row \in C24_RowsBuilt(q) :
                row.version = "V2" /\ row.entity_type = Some("Internal")

\* C25: every V1 row an insertion operation builds carries version V1, an
\* organization id and a merchant id, and no profile id, entity id or entity
\* type; in Internal scope the merchant id is the internal-user sentinel.  Every
\* stored V1 row has organization and merchant id, every stored V2 row has
\* organization id, entity id and entity type.
C25_V1RowShape ==
    /\ \A p \in RoleProcs :
            \A row \in C24_RowsBuilt(p) :
                row.version = "V1" =>
                    /\ row.org_id = role[p].entity.org_id
                    /\ row.org_id # None
                    /\ row.merchant_id # None
                    /\ row.profile_id = None
                    /\ row.entity_id = None
                    /\ row.entity_type = None
                    /\ role[p].entity.level = "InternalLevel" =>
                            row.merchant_id = Some(MerchantId(INTERNAL_USER_MERCHANT_ID))
                    /\ role[p].entity.level # "InternalLevel" =>
                            row.merchant_id = role[p].entity.merchant_id
    /\ \A row \in roleStore :
            /\ row.version \in {"V1", "V2"}
            /\ row.version = "V1" => row.org_id # None /\ row.merchant_id # None
            /\ row.version = "V2" =>
                    row.org_id # None /\ row.entity_id # None /\ row.entity_type # None

\* The V1 row of an Internal-scoped role is stored, with the sentinel.
C25_Witness ==
    \E p \in RoleProcs :
        /\ role[p].entity.level = "InternalLevel"
        /\ \E row \in roleStore :
                /\ row.id[1] = p
                /\ row.version = "V1"
                /\ row.merchant_id = Some(MerchantId(INTERNAL_USER_MERCHANT_ID))

(* ------------------------------------------------------------------------ *)
(* The result of a dual write                                               *)
(* ------------------------------------------------------------------------ *)
C26_Answered == last.op = "insert_in_v1_and_v2"

\* The rows of version V1 in the store's answer.
C26_V1Echoed ==
    IF last.row = None THEN {}
    ELSE {last.row[1][i] : i \in {j \in 1..Len(last.row[1]) : last.row[1][j].version = "V1"}}

\* C26: when the store's answer to the V1AndV2 insert holds no row of version
\* V1, or the store call failed, insert_in_v1_and_v2 returns
\* InternalServerError; what it returns otherwise is a V1 row of the answer,
\* never a V2 row.
C26_DualWriteResult ==
    C26_Answered =>
        /\ last.calls[1].kind = "V1AndV2"
        /\ last.store # "ok" => last.res = Err("InternalServerError")
        /\ C26_V1Echoed = {} => last.res = Err("InternalServerError")
        /\ last.res.ok =>
                /\ last.res.val[1].version = "V1"
                /\ last.res.val[1] \in C26_V1Echoed

\* The store inserted both rows and answered with the V2 row alone.
C26_Witness ==
    /\ C26_Answered
    /\ last.store = "ok"
    /\ Cardinality(last.added) = 2
    /\ last.row # None
    /\ Len(last.row[1]) = 1
    /\ last.row[1][1].version = "V2"
    /\ last.res = Err("InternalServerError")

(* ------------------------------------------------------------------------ *)
(* Organization-level role of a new user                                    *)
(* ------------------------------------------------------------------------ *)
C27_Inserted == last.op = "insert_org_level_user_role_in_db"

\* C27: insert_org_level_user_role_in_db builds an Organization-scoped role
\* with the organization id and the merchant id of the NewUser and the new
\* user's id as created_by and last_modified_by; with Some(V1) it inserts a V1
\* row only, with Some(V2) a V2 row only, with None both rows in one call,
\* and then the row it returns is the V1 row.
C27_OrgLevelRoleByVersion ==
    C27_Inserted =>
        LET self == last.arg[1].self
            version == last.arg[1].version
            rows == last.calls[1].rows
            versions == [k \in 1..Len(rows) |-> rows[k].version]
        IN  /\ Len(last.calls) = 1
            /\ \A k \in 1..Len(rows) :
                    /\ rows[k].user_id = self.user_id
                    /\ rows[k].created_by = self.user_id
                    /\ rows[k].last_modified_by = self.user_id
                    /\ rows[k].role_id = last.arg[1].role_id
                    /\ rows[k].status = last.arg[1].user_status
                    /\ rows[k].org_id = Some(self.new_organization.org_id)
                    /\ rows[k].version = "V1" =>
                            rows[k].merchant_id = Some(MerchantId(self.merchant_id))
                    /\ rows[k].version = "V2" =>
                            /\ rows[k].entity_type = Some("Organization")
                            /\ rows[k].entity_id = Some(self.new_organization.org_id.repr)
            /\ version = Some("V1") => versions = <<"V1">>
            /\ version = Some("V2") => versions = <<"V2">>
            /\ version = None => versions = <<"V1", "V2">>
            /\ last.store = "ok" =>
                    {r.version : r \in last.added} = {versions[k] : k \in 1..Len(versions)}
            /\ last.store = "ok" => Cardinality(last.added) = Len(rows)
            /\ last.store # "ok" => last.added = {} /\ ~last.res.ok
            /\ (version = None /\ last.res.ok) => last.res.val[1].version = "V1"
            /\ last.res.ok => last.res.val[1] \in last.added

\* A role written without a version is in the table in both versions, and the
\* V1 row was returned.
C27_Witness ==
    /\ C27_Inserted
    /\ last.arg[1].version = None
    /\ last.res.ok
    /\ last.res.val[1].version = "V1"
    /\ {r.version : r \in last.added} = {"V1", "V2"}

(* ------------------------------------------------------------------------ *)
(* The preferred or active role of a user                                   *)
(* ------------------------------------------------------------------------ *)
C30_LookedUp == last.op = "get_preferred_or_active_user_role_from_db"

\* The V1 roles of the user in the table.
C30_V1Roles(user_id) == {r \in roleStore : r.user_id = user_id /\ r.version = "V1"}

\* C30: the role returned is a V1 role of the user.  With a preferred
\* merchant it is the user's V1 role for that merchant, of any status, and a
\* failed lookup is the error returned, no other role being looked for.
\* Without one it is the first V1 role of the user with status Active, and
\* ValueNotFound when the user has no Active V1 role; a role with status
\* InvitationSent is never returned then.
C30_PreferredOrActiveRole ==
    C30_LookedUp =>
        LET self == last.arg[1]
            roles == C30_V1Roles(self.user_id)
            res == last.res
        IN  /\ res.ok => res.val[1] \in roles
            /\ Len(last.calls) = 1
            /\ self.preferred_merchant_id # None =>
                    /\ res.ok => res.val[1].merchant_id = self.preferred_merchant_id
                    /\ last.store # "ok" => ~res.ok /\ res.err = last.store
                    /\ (last.store = "ok") => res.ok
                    /\ (~res.ok /\ res.err = "ValueNotFound") =>
                            ~\E r \in roles : r.merchant_id = self.preferred_merchant_id
            /\ self.preferred_merchant_id = None =>
                    /\ res.ok =>
                            /\ res.val[1].status = "Active"
                            /\ \E i \in 1..Len(last.row[1]) :
                                    /\ last.row[1][i] = res.val[1]
                                    /\ \A j \in 1..(i - 1) :
                                            last.row[1][j].status # "Active"
                    /\ (last.store = "ok" /\ ~\E r \in roles : r.status = "Active") =>
                            res = Err("ValueNotFound")
                    /\ (last.store = "ok" /\ \E r \in roles : r.status = "Active") =>
                            res.ok
                    /\ last.store # "ok" => ~res.ok /\ res.err = last.store

\* Without a preferred merchant, the store listed a role with status
\* InvitationSent before an Active one, and the Active one was returned.
C30_Witness ==
    /\ C30_LookedUp
    /\ last.arg[1].preferred_merchant_id = None
    /\ last.row # None
    /\ Len(last.row[1]) = 2
    /\ last.row[1][1].status = "InvitationSent"
    /\ last.res.ok
    /\ last.res.val[1] = last.row[1][2]

(* ------------------------------------------------------------------------ *)
(* decrypt_and_get_totp_secret reads the key store                          *)
(* ------------------------------------------------------------------------ *)
C29_Calls == {last.calls[i] : i \in 1..Len(last.calls)}

\* After a call: it called the fetch and the decryption at most; with a stored
\* secret and no key store for the user, it returned InternalServerError and
\* the user still has no key store.
C29_MissingKeyStoreIsError ==
    last.op = "decrypt_and_get_totp_secret" =>
        /\ C29_Calls \subseteq {"get_user_key_store_by_user_id", "crypto_operation"}
        /\ last.added = {}
        /\ (last.arg[1].totp_secret # None /\ last.store = "not_found") =>
                /\ last.res = Err("InternalServerError")
                /\ last.calls = <<"get_user_key_store_by_user_id">>
                /\ ~\E r \in keyStore : r.user_id = last.arg[1].user_id

\* A call leaves the key-store table as it found it.
C29_KeyStoreUntouched ==
    [][last'.op = "decrypt_and_get_totp_secret" => keyStore' = keyStore]_vars

\* C29: decrypt_and_get_totp_secret only reads the key store: no call creates,
\* inserts or changes a key-store row, and with a TOTP secret stored and the
\* user's key store missing it returns InternalServerError and creates none.
C29_DecryptOnlyReads == []C29_MissingKeyStoreIsError /\ C29_KeyStoreUntouched

\* A secret is stored, the user has no key store, another user has one.
C29_Witness ==
    /\ last.op = "decrypt_and_get_totp_secret"
    /\ last.arg[1].totp_secret # None
    /\ last.store = "not_found"
    /\ last.res = Err("InternalServerError")
    /\ keyStore # {}
    /\ \A r \in keyStore : r.user_id # last.arg[1].user_id

====
